---- MODULE Spec2Model ----
(***************************************************************************)
(* Model of the game-database-app core:                                    *)
(*   - TournamentBracket.updateMatchScore (bracket progression), and       *)
(*   - the scoresheet formula evaluator (handleFieldChange).               *)
(* The bracket component is checked under SpecBracket, the scoresheet      *)
(* renderer under SpecSheet.                                               *)
(***************************************************************************)
EXTENDS Integers, Sequences, FiniteSets, TLC

\* ------------------------------------------------------------------ bounds
\* Scores typed into the two score inputs range over 0..MaxScore.
MaxScore == 1
\* Numbers typed into a number field are -1, 0 and 7..MaxNumber.
MaxNumber == 14

\* ------------------------------------------------------- bracket: values
\* `null` of a player id / winner id (string | null in the source).
NoPlayer == 0
\* `null` of a score (number | null in the source).
NoScore == -1

RECURSIVE Pow2(_)
Pow2(n) == IF n = 0 THEN 1 ELSE 2 * Pow2(n - 1)

\* Math.floor(x / 2) for a non-negative position.
FloorHalf(x) == x \div 2

\* interface Match
Match(id, round, position, p1, p2) ==
  [id |-> id, round |-> round, position |-> position,
   player1Id |-> p1, player2Id |-> p2, winnerId |-> NoPlayer,
   score1 |-> NoScore, score2 |-> NoScore, status |-> "pending"]

\* useState<Match | null>(null): the null selection.
NoMatch == Match(0, 0, 0, NoPlayer, NoPlayer)

\* Number of matches of round r in a bracket of R rounds.
RoundSize(R, r) == Pow2(R - 1 - r)
\* Number of matches in the rounds before round r.
RoundOffset(R, r) == Pow2(R) - Pow2(R - r)
NumMatches(R) == Pow2(R) - 1

\* The match list the component loads for a fresh single-elimination bracket
\* of R rounds: round 0 holds the registered players pairwise, later rounds
\* are unresolved.  The list arrives grouped by round; within a round the
\* positions arrive ascending or descending (the component sorts for display
\* only, so it relies on neither).
LoadedMatches(R, asc) ==
  [i \in 1..NumMatches(R) |->
     LET r   == CHOOSE x \in 0..(R - 1) :
                   RoundOffset(R, x) < i /\ i <= RoundOffset(R, x) + RoundSize(R, x)
         k   == i - RoundOffset(R, r) - 1
         pos == IF asc THEN k ELSE RoundSize(R, r) - 1 - k
         id  == RoundOffset(R, r) + pos + 1
     IN  IF r = 0 THEN Match(id, r, pos, 2 * pos + 1, 2 * pos + 2)
                  ELSE Match(id, r, pos, NoPlayer, NoPlayer)]

\* The list loaded for a bracket with an odd number of registered players, as
\* the bracket construction leaves it: the last match of round 0 has one
\* player and a null opponent (a bye), and that player already holds the slot
\* of the bye's parity in the match of round 1 at position floor(p / 2).
LoadedWithBye(R, asc) ==
  LET p == RoundSize(R, 0) - 1
  IN  [i \in 1..NumMatches(R) |->
         LET m == LoadedMatches(R, asc)[i]
         IN  IF m.round = 0 /\ m.position = p
               THEN [m EXCEPT !.player2Id = NoPlayer]
             ELSE IF m.round = 1 /\ m.position = FloorHalf(p)
               THEN IF p % 2 = 0 THEN [m EXCEPT !.player1Id = 2 * p + 1]
                                 ELSE [m EXCEPT !.player2Id = 2 * p + 1]
             ELSE m]

\* ---------------------------------------------------- scoresheet: values
\* JavaScript values a field can hold (Record<string, any>), tagged.
Num(n)  == [t |-> "num", n |-> n, s |-> ""]
Str(x)  == [t |-> "str", n |-> 0, s |-> x]
Bool(b) == [t |-> "bool", n |-> IF b THEN 1 ELSE 0, s |-> ""]
Undefined == [t |-> "undef", n |-> 0, s |-> ""]
NaN == [t |-> "nan", n |-> 0, s |-> ""]
\* Not a value: the evaluation threw (SyntaxError, ReferenceError).
Threw == [t |-> "threw", n |-> 0, s |-> ""]

\* Formulas are kept as the expression tree of their text (written with
\* blanks around the binary operators, as all formulas of the repository):
\*   <<"num", n>>            a number literal
\*   <<"bool", b>>           true / false
\*   <<"ref", id>>           an identifier
\*   <<"add", l, r>>         l + r
\*   <<"sub", l, r>>         l - r
\*   <<"floordiv", l, d>>    Math.floor((l) / d), d a positive literal
\*   <<"hole">>              empty text where an operand stood
\*   <<"bad">>               text that is no expression
NoFormula == <<"none">>

\* interface ScoresheetField; hasDefault is defaultValue !== undefined.
Field(id, type, hasDefault, defaultValue, options, formula, min, max) ==
  [id |-> id, type |-> type, hasDefault |-> hasDefault,
   defaultValue |-> defaultValue, options |-> options, formula |-> formula,
   min |-> min, max |-> max]

NumberField(id, dflt, min, max) ==
  Field(id, "number", TRUE, Num(dflt), <<>>, NoFormula, min, max)
CalculationField(id, formula) ==
  Field(id, "calculation", FALSE, Undefined, <<>>, formula, 0, 0)

\* 'Math.floor((<id> - 10) / 2)'
AbilityModifier(id) == <<"floordiv", <<"sub", <<"ref", id>>, <<"num", 10>>>>, 2>>

\* The Ability Scores, Combat Stats and Skills subcategories of the D&D 5e
\* template, cut down to two abilities and what is derived from them.
DndTemplate ==
  << << NumberField("strength", 10, 1, 30),
        NumberField("dexterity", 10, 1, 30),
        CalculationField("str_mod", AbilityModifier("strength")),
        CalculationField("dex_mod", AbilityModifier("dexterity")) >>,
     << CalculationField("initiative", <<"ref", "dex_mod">>) >>,
     << CalculationField("athletics", <<"ref", "str_mod">>) >> >>

\* A template as the builder produces it: a new number field has min 0 and
\* max 100, a new calculation field has the formula 'field1 + field2' until
\* it is edited; here one formula was left as it is, one references the
\* number field, one is cut short ('points +') and one is given last.
BuilderTemplate ==
  << << Field("points", "number", TRUE, Num(0), <<>>, NoFormula, 0, 100),
        CalculationField("total",
                         <<"add", <<"ref", "field1">>, <<"ref", "field2">>>>),
        CalculationField("twice",
                         <<"add", <<"ref", "points">>, <<"ref", "points">>>>) >>,
     << CalculationField("broken", <<"add", <<"ref", "points">>, <<"bad">>>>),
        CalculationField("bonus",
                         <<"add", <<"ref", "twice">>, <<"num", 1>>>>) >> >>

\* A template whose first calculation field references one declared later.
ForwardTemplate ==
  << << Field("base", "number", FALSE, Undefined, <<>>, NoFormula, 0, 100),
        CalculationField("early",
                         <<"add", <<"ref", "late">>, <<"num", 1>>>>) >>,
     << CalculationField("late",
                         <<"add", <<"ref", "base">>, <<"num", 1>>>>) >> >>

\* The Character Information subcategory of the D&D 5e template (a text
\* field with the default '', the alignment dropdown without a default, the
\* level), and a subcategory with one field of each remaining kind: fields
\* without a default, and a dropdown as the builder makes it (default '').
CharacterTemplate ==
  << << Field("character_name", "text", TRUE, Str(""), <<>>, NoFormula, 0, 0),
        Field("alignment", "dropdown", FALSE, Undefined,
              <<"Lawful Good", "True Neutral">>, NoFormula, 0, 0),
        NumberField("level", 1, 1, 20) >>,
     << Field("inspiration", "checkbox", FALSE, Undefined, <<>>, NoFormula, 0, 0),
        Field("notes", "text", FALSE, Undefined, <<>>, NoFormula, 0, 0),
        Field("deity", "dropdown", FALSE, Undefined, <<>>, NoFormula, 0, 0),
        Field("rank", "dropdown", TRUE, Str(""),
              <<"Novice", "Expert">>, NoFormula, 0, 0),
        Field("summary", "calculation", FALSE, Undefined, <<>>, NoFormula, 0, 0) >> >>

Templates == <<DndTemplate, BuilderTemplate, ForwardTemplate, CharacterTemplate>>

RECURSIVE Flatten(_)
\* subcategories.forEach(subcategory => subcategory.fields.forEach(...)):
\* the fields in template order.
Flatten(subcategories) ==
  IF subcategories = <<>> THEN <<>>
  ELSE Head(subcategories) \o Flatten(Tail(subcategories))

FieldsOf(tp) == Flatten(Templates[tp])
FieldIds(tp) == {FieldsOf(tp)[i].id : i \in DOMAIN FieldsOf(tp)}
\* Object.keys(newValues): insertion order, which is template order.
KeysOf(tp) == [i \in DOMAIN FieldsOf(tp) |-> FieldsOf(tp)[i].id]

\* ------------------------------------------------ scoresheet: evaluator
\* Words that are identifiers when they turn up in formula text.
Identifiers ==
  UNION {FieldIds(tp) : tp \in DOMAIN Templates} \cup {"undefined", "NaN"}

\* What formula.replace(..., value) puts in place of an identifier: the
\* text String(value), read as part of the expression.
TextOf(v) ==
  CASE v.t = "num"   -> <<"num", v.n>>
    [] v.t = "bool"  -> <<"bool", v.n = 1>>
    [] v.t = "undef" -> <<"ref", "undefined">>
    [] v.t = "nan"   -> <<"ref", "NaN">>
    [] v.t = "str"   -> IF v.s = "" THEN <<"hole">>
                        ELSE IF v.s \in Identifiers THEN <<"ref", v.s>>
                        ELSE <<"bad">>

RECURSIVE Substitute(_, _, _)
\* formula.replace(new RegExp(`\\b${key}\\b`, 'g'), value)
Substitute(f, key, v) ==
  CASE f[1] = "ref" -> IF f[2] = key THEN TextOf(v) ELSE f
    [] f[1] \in {"add", "sub"} ->
         <<f[1], Substitute(f[2], key, v), Substitute(f[3], key, v)>>
    [] f[1] = "floordiv" -> <<"floordiv", Substitute(f[2], key, v), f[3]>>
    [] OTHER -> f

RECURSIVE SubstituteAll(_, _, _)
\* Object.keys(newValues).forEach(key => formula = formula.replace(...)):
\* one key after the other, each on the text the earlier ones left.
SubstituteAll(f, keys, vals) ==
  IF keys = <<>> THEN f
  ELSE SubstituteAll(Substitute(f, Head(keys), vals[Head(keys)]), Tail(keys), vals)

\* Mutant of FloorOfQuotient: the quotient is truncated toward zero.
TruncOfQuotient(a, d) == IF a >= 0 THEN a \div d ELSE 0 - ((0 - a) \div d)

\* Math.floor(a / d) for integers a and d > 0.
FloorOfQuotient(a, d) == a \div d

\* ToNumber of an operand value.
IsNumeric(v) == v.t \in {"num", "bool"}

RECURSIVE Eval(_)
\* eval(formula) on the substituted text; Threw when eval throws.  An
\* identifier left in the text names nothing in scope of the eval call
\* (no field id of the templates is a variable of the component), so it
\* throws a ReferenceError unless it is undefined or NaN.
Eval(f) ==
  CASE f[1] = "num"  -> Num(f[2])
    [] f[1] = "bool" -> Bool(f[2])
    [] f[1] = "ref"  -> IF f[2] = "undefined" THEN Undefined
                        ELSE IF f[2] = "NaN" THEN NaN
                        ELSE Threw                     \* ReferenceError
    [] f[1] = "hole" -> Undefined                      \* eval('')
    [] f[1] \in {"add", "sub"} ->
         LET r == IF f[3][1] = "hole" THEN Threw ELSE Eval(f[3])
             \* an empty left operand leaves a unary + or -
             l == IF f[2][1] = "hole" THEN Num(0) ELSE Eval(f[2])
         IN  IF l = Threw \/ r = Threw THEN Threw
             ELSE IF ~IsNumeric(l) \/ ~IsNumeric(r) THEN NaN
             ELSE IF f[1] = "add" THEN Num(l.n + r.n) ELSE Num(l.n - r.n)
    [] f[1] = "floordiv" ->
         LET a == IF f[2][1] = "hole" THEN Threw ELSE Eval(f[2])
         IN  IF a = Threw THEN Threw
             ELSE IF ~IsNumeric(a) THEN NaN
             ELSE Num(FloorOfQuotient(a.n, f[3]))
    [] OTHER -> Threw                                  \* SyntaxError

\* field.type === 'calculation' && field.formula
IsCalculated(field) == field.type = "calculation" /\ field.formula # NoFormula

\* The try block for one field: substitute, eval, store; the catch block
\* leaves the mapping as it is.
RecomputeField(field, keys, vals) ==
  LET result == Eval(SubstituteAll(field.formula, keys, vals))
  IN  IF result = Threw THEN vals ELSE [vals EXCEPT ![field.id] = result]

RECURSIVE RecomputePass_AbortOnError(_, _, _)
\* Mutant of RecomputePass: one try block around the whole loop, so the
\* pass ends at the first formula that throws.
RecomputePass_AbortOnError(fields, keys, vals) ==
  IF fields = <<>> THEN vals
  ELSE IF ~IsCalculated(Head(fields))
    THEN RecomputePass_AbortOnError(Tail(fields), keys, vals)
  ELSE IF Eval(SubstituteAll(Head(fields).formula, keys, vals)) = Threw
    THEN vals
  ELSE RecomputePass_AbortOnError(Tail(fields), keys,
                                  RecomputeField(Head(fields), keys, vals))

\* Mutant of RecomputePass: every formula is evaluated on the mapping as it
\* was before the pass, whatever the pass has stored since.
RecomputePass_OnSnapshot(fields, keys, vals) ==
  [id \in DOMAIN vals |->
     IF \E i \in DOMAIN fields : fields[i].id = id /\ IsCalculated(fields[i])
       THEN LET field == fields[CHOOSE i \in DOMAIN fields : fields[i].id = id]
            IN  RecomputeField(field, keys, vals)[id]
       ELSE vals[id]]

RECURSIVE RecomputePass(_, _, _)
\* The recalculation loop: every calculation field once, in template order,
\* each on the mapping the earlier ones left.
RecomputePass(fields, keys, vals) ==
  IF fields = <<>> THEN vals
  ELSE RecomputePass(Tail(fields), keys,
                     IF IsCalculated(Head(fields))
                       THEN RecomputeField(Head(fields), keys, vals)
                       ELSE vals)

\* What a type gives a field that has no defaultValue.
TypeDefault(field) ==
  IF field.type = "number" THEN Num(0)
  ELSE IF field.type = "checkbox" THEN Bool(FALSE)
  ELSE IF field.type = "dropdown" /\ Len(field.options) > 0
    THEN Str(field.options[1])
  ELSE Str("")

\* Mutant of DefaultValue: field.defaultValue || (the type's default), so a
\* default of 0, false or '' counts as none.
DefaultValue_FalsyIsUnset(field) ==
  IF field.hasDefault /\ field.defaultValue \notin {Num(0), Bool(FALSE), Str("")}
    THEN field.defaultValue
    ELSE TypeDefault(field)

\* initialValues[field.id] = field.defaultValue !== undefined ? ... : ''
DefaultValue(field) ==
  IF field.hasDefault THEN field.defaultValue ELSE TypeDefault(field)

\* initializeScoresheet / the first loop of fetchData: one entry per field.
DefaultValues(tp) ==
  [id \in FieldIds(tp) |->
     DefaultValue(FieldsOf(tp)[CHOOSE i \in DOMAIN FieldsOf(tp) :
                                 /\ FieldsOf(tp)[i].id = id
                                 /\ \A j \in DOMAIN FieldsOf(tp) :
                                      FieldsOf(tp)[j].id = id => j <= i])]

\* The bracket shapes loaded: 4 players (2 rounds) and 8 players (3 rounds).
BracketRounds == {2, 3}

\* ------------------------------------------------------------- variables
VARIABLES
  matches,        \* useState<Match[]>
  selectedMatch,  \* useState<Match | null>
  score1,         \* useState<number | null>
  score2,         \* useState<number | null>
  error,          \* useState<string | null>, "" is null
  updatingScore,  \* useState(false)
  pc,             \* position of the one updateMatchScore call in flight
  cl,             \* what the current / last call closed over and computed
  sent,           \* the PUT requests the current / last call has sent
  outcome,        \* how the current / last call ended
  lastOk          \* the result the last successful call recorded
\* cl, sent and outcome describe the last call until the next user input;
\* lastOk is kept only while the user re-enters that same result for the
\* same match.

bracketVars == <<matches, selectedMatch, score1, score2, error, updatingScore,
                 pc, cl, sent, outcome, lastOk>>

VARIABLES
  component,      \* "renderer" (ScoresheetRenderer) or "generator"
  readOnly,       \* the renderer's readOnly prop
  template,       \* index in Templates of the loaded scoresheet
  values,         \* useState<Record<string, any>>: field id -> value
  edit,           \* the last handleFieldChange call that stored: [id, value]
  before,         \* newValues of that call before the recalculation loop
  saving,         \* useState(false); the generator's loading while it saves
  request,        \* the fetch of saveScoresheet that has no response yet
  sheetError,     \* useState<string | null>, "" is null
  route,          \* where router.push has gone, "" while on the page
  called          \* the handler called last

sheetVars == <<component, readOnly, template, values, edit, before, saving,
               request, sheetError, route, called>>

\* The store behind /api/scoresheets/[id] and the requests it is serving.
VARIABLES
  scoresheets,               \* table scoresheets: id -> name
  scoresheet_subcategories,  \* table scoresheet_subcategories: set of rows
  scoresheet_fields,         \* table scoresheet_fields: set of rows
  requests,                  \* per client, its request: where the handler
                             \* stands, and its response once it is done
  received,                  \* number of requests received so far
  foreign_keys               \* the store enforces the declared foreign keys

apiVars == <<scoresheets, scoresheet_subcategories, scoresheet_fields,
             requests, received, foreign_keys>>

\* No store and no request.
ApiOff ==
  /\ scoresheets = <<>> /\ scoresheet_subcategories = {}
  /\ scoresheet_fields = {} /\ requests = <<>> /\ received = 0
  /\ foreign_keys = FALSE

NoEdit == [id |-> "", value |-> Undefined]

\* No fetch of saveScoresheet is waiting for its response.
NoRequest == [method |-> "", url |-> "", values |-> <<>>]

\* The scoresheet components are not mounted.
SheetOff ==
  /\ component = "none" /\ readOnly = FALSE /\ template = 0 /\ values = <<>>
  /\ edit = NoEdit /\ before = <<>>
  /\ saving = FALSE /\ request = NoRequest /\ sheetError = "" /\ route = ""
  /\ called = ""

\* No call of updateMatchScore has been made, or none is remembered.
NoClosure == [matches |-> <<>>, sel |-> NoMatch, score1 |-> NoScore,
              score2 |-> NoScore, winnerId |-> NoPlayer, next |-> NoMatch,
              resubmit |-> FALSE]

NoResult == [id |-> 0, score1 |-> NoScore, score2 |-> NoScore]

\* The bracket component is not mounted.
BracketOff ==
  /\ matches = <<>> /\ selectedMatch = NoMatch /\ score1 = NoScore
  /\ score2 = NoScore /\ error = "" /\ updatingScore = FALSE /\ pc = "idle"
  /\ cl = NoClosure /\ sent = <<>> /\ outcome = "none" /\ lastOk = NoResult

\* Two browsers showing the bracket of one tournament, and the store behind
\* /api/tournaments/[id]/matches.
VARIABLES
  tournament_matches,  \* the match list the server stores
  browsers             \* per browser: its `matches` state and its one call of
                       \* updateMatchScore (what it closed over, where it is)

pairVars == <<tournament_matches, browsers>>

\* No tournament is stored and no browser shows one.
PairOff == tournament_matches = <<>> /\ browsers = <<>>

\* TournamentManager.
VARIABLES
  tournaments,    \* useState<Tournament[]>: tournament id -> status
  managerError,   \* useState<string | null>, "" is null
  inflight        \* the calls of startTournament, completeTournament and
                  \* deleteTournament that wait for their response, each with
                  \* the `tournaments` it closed over

managerVars == <<tournaments, managerError, inflight>>

\* The tournament manager is not mounted.
ManagerOff == tournaments = <<>> /\ managerError = "" /\ inflight = <<>>

\* MultiplayerSessionManager.
VARIABLES
  session,         \* useState<MultiplayerSession | null>: gameId, hostId
                   \* and status
  isHost,          \* useState(false), set when the session is loaded
  sessionLoading,  \* useState(true): a handler is between its fetch and its
                   \* finally block, and which one
  sessionError,    \* useState<string | null>, "" is null
  location         \* window.location.href once a handler has set it, or ""

sessionVars == <<session, isHost, sessionLoading, sessionError, location>>

\* The session manager is not mounted.
SessionOff ==
  /\ session = <<>> /\ isHost = FALSE /\ sessionLoading = ""
  /\ sessionError = "" /\ location = ""

\* MultiplayerJoin.
VARIABLES
  joinLoad,      \* where fetchSessionDetails stands: "none" (no room code, no
                 \* fetch), "session", "game", "legal", or "loaded" once
                 \* setLoading(false) has run
  fetched,       \* what the server has answered so far
  joinSession,   \* useState<MultiplayerSession | null> is set
  joinGame,      \* useState<Game | null> is set
  joinError,     \* useState<string | null>, "" is null
  playerName,    \* useState('')
  joining,       \* useState(false): the join request waits for its response
  joinSent,      \* number of join requests sent
  joinLocation   \* window.location.href once joinSession has set it, or ""

joinVars == <<joinLoad, fetched, joinSession, joinGame, joinError, playerName,
              joining, joinSent, joinLocation>>

\* Nothing has been answered yet.
NothingFetched ==
  [status |-> "", players |-> 0, maxPlayers |-> 0, game |-> FALSE,
   canPlay |-> FALSE]

\* The join page is not mounted.
JoinOff ==
  /\ joinLoad = "" /\ fetched = NothingFetched /\ joinSession = FALSE
  /\ joinGame = FALSE /\ joinError = "" /\ playerName = "" /\ joining = FALSE
  /\ joinSent = 0 /\ joinLocation = ""

\* MultiplayerSessionCreator and TournamentCreator.
VARIABLES
  creator,          \* which of the two forms is mounted
  players,          \* useState<Player[]> / useState<string[]>: the names
  maxPlayers,       \* useState(4) / useState(8)
  creatorError,     \* useState<string | null>, "" is null
  creating,         \* useState(false): the create request waits for its
                    \* response
  created,          \* the body of the last create request sent
  creatorLocation   \* window.location.href once the form has set it, or ""

creatorVars == <<creator, players, maxPlayers, creatorError, creating, created,
                 creatorLocation>>

\* No create request has been sent.
NoBody == [players |-> <<>>, maxPlayers |-> 0]

\* No creator form is mounted.
CreatorOff ==
  /\ creator = "" /\ players = <<>> /\ maxPlayers = 0 /\ creatorError = ""
  /\ creating = FALSE /\ created = NoBody /\ creatorLocation = ""

\* The favorites route (GET, POST, DELETE) and its table.
VARIABLES
  user_favorites,   \* table user_favorites: rows [id, user_id, game_id]
  favHandlers,      \* the route handlers started so far, each with its
                    \* position
  favLog            \* the responses sent, in the order the database served
                    \* them

favoritesVars == <<user_favorites, favHandlers, favLog>>

\* The favorites route has served nothing and the table is empty.
FavoritesOff ==
  /\ user_favorites = {} /\ favHandlers = <<>> /\ favLog = <<>>

\* ------------------------------------------- one component at a time
\* Each specification runs one component; the state of the others is pinned.
vars == <<bracketVars, sheetVars, apiVars, pairVars, managerVars,
    sessionVars, joinVars, creatorVars, favoritesVars>>

exceptBracket == <<sheetVars, apiVars, pairVars, managerVars, sessionVars,
    joinVars, creatorVars, favoritesVars>>

OnlyBracket ==
  /\ SheetOff
  /\ ApiOff
  /\ PairOff
  /\ ManagerOff
  /\ SessionOff
  /\ JoinOff
  /\ CreatorOff
  /\ FavoritesOff

exceptSheet == <<bracketVars, apiVars, pairVars, managerVars, sessionVars,
    joinVars, creatorVars, favoritesVars>>

OnlySheet ==
  /\ BracketOff
  /\ ApiOff
  /\ PairOff
  /\ ManagerOff
  /\ SessionOff
  /\ JoinOff
  /\ CreatorOff
  /\ FavoritesOff

exceptApi == <<bracketVars, sheetVars, pairVars, managerVars, sessionVars,
    joinVars, creatorVars, favoritesVars>>

OnlyApi ==
  /\ BracketOff
  /\ SheetOff
  /\ PairOff
  /\ ManagerOff
  /\ SessionOff
  /\ JoinOff
  /\ CreatorOff
  /\ FavoritesOff

exceptPair == <<bracketVars, sheetVars, apiVars, managerVars, sessionVars,
    joinVars, creatorVars, favoritesVars>>

OnlyPair ==
  /\ BracketOff
  /\ SheetOff
  /\ ApiOff
  /\ ManagerOff
  /\ SessionOff
  /\ JoinOff
  /\ CreatorOff
  /\ FavoritesOff

exceptManager == <<bracketVars, sheetVars, apiVars, pairVars, sessionVars,
    joinVars, creatorVars, favoritesVars>>

OnlyManager ==
  /\ BracketOff
  /\ SheetOff
  /\ ApiOff
  /\ PairOff
  /\ SessionOff
  /\ JoinOff
  /\ CreatorOff
  /\ FavoritesOff

exceptSession == <<bracketVars, sheetVars, apiVars, pairVars, managerVars,
    joinVars, creatorVars, favoritesVars>>

OnlySession ==
  /\ BracketOff
  /\ SheetOff
  /\ ApiOff
  /\ PairOff
  /\ ManagerOff
  /\ JoinOff
  /\ CreatorOff
  /\ FavoritesOff

exceptJoin == <<bracketVars, sheetVars, apiVars, pairVars, managerVars,
    sessionVars, creatorVars, favoritesVars>>

OnlyJoin ==
  /\ BracketOff
  /\ SheetOff
  /\ ApiOff
  /\ PairOff
  /\ ManagerOff
  /\ SessionOff
  /\ CreatorOff
  /\ FavoritesOff

exceptCreator == <<bracketVars, sheetVars, apiVars, pairVars, managerVars,
    sessionVars, joinVars, favoritesVars>>

OnlyCreator ==
  /\ BracketOff
  /\ SheetOff
  /\ ApiOff
  /\ PairOff
  /\ ManagerOff
  /\ SessionOff
  /\ JoinOff
  /\ FavoritesOff

exceptFavorites == <<bracketVars, sheetVars, apiVars, pairVars, managerVars,
    sessionVars, joinVars, creatorVars>>

OnlyFavorites ==
  /\ BracketOff
  /\ SheetOff
  /\ ApiOff
  /\ PairOff
  /\ ManagerOff
  /\ SessionOff
  /\ JoinOff
  /\ CreatorOff

\* ------------------------------------------- end of component frames

InitBracket ==
  /\ OnlyBracket
  /\ \E R \in BracketRounds, asc \in BOOLEAN :
       \/ matches = LoadedMatches(R, asc)
       \/ R > 1 /\ matches = LoadedWithBye(R, asc)
  /\ selectedMatch = NoMatch
  /\ score1 = NoScore
  /\ score2 = NoScore
  /\ error = ""
  /\ updatingScore = FALSE
  /\ pc = "idle"
  /\ cl = NoClosure
  /\ sent = <<>>
  /\ outcome = "none"
  /\ lastOk = NoResult

\* Mutant of UIVisible: the bracket stays on screen next to the error text.
UIVisible_IgnoreError == TRUE

\* The bracket and the result form are rendered only when no error is set
\* (the component returns the error text alone otherwise).
UIVisible == error = ""

\* Inputs are taken between calls.  An input made while a call is in flight
\* is read by nothing: the call reads only what it closed over, a successful
\* call ends by clearing the selection, selectMatch overwrites both score
\* inputs, and a failed call hides the bracket and the form for good.
Interactive == UIVisible /\ pc = "idle"

\* A user input forgets the record of the last call.
ForgetLastCall == cl' = NoClosure /\ sent' = <<>> /\ outcome' = "none"

\* ------------------------------------------------------- bracket: steps
\* onClick of a match card: only a match with both players is selectable.
SelectMatch(i) ==
  /\ Interactive
  /\ matches[i].player1Id # NoPlayer /\ matches[i].player2Id # NoPlayer
  /\ selectedMatch' = matches[i]
  /\ score1' = matches[i].score1
  /\ score2' = matches[i].score2
  /\ ForgetLastCall
  /\ lastOk' = IF lastOk.id = matches[i].id THEN lastOk ELSE NoResult
  /\ UNCHANGED <<matches, error, updatingScore, pc>>

SetScore1(v) ==
  /\ Interactive /\ selectedMatch # NoMatch
  /\ score1' = v
  /\ ForgetLastCall
  /\ lastOk' = IF lastOk.score1 = v THEN lastOk ELSE NoResult
  /\ UNCHANGED <<matches, selectedMatch, score2, error, updatingScore, pc>>

SetScore2(v) ==
  /\ Interactive /\ selectedMatch # NoMatch
  /\ score2' = v
  /\ ForgetLastCall
  /\ lastOk' = IF lastOk.score2 = v THEN lastOk ELSE NoResult
  /\ UNCHANGED <<matches, selectedMatch, score1, error, updatingScore, pc>>

CancelSelection ==
  /\ Interactive /\ selectedMatch # NoMatch
  /\ selectedMatch' = NoMatch
  /\ ForgetLastCall
  /\ lastOk' = NoResult
  /\ UNCHANGED <<matches, score1, score2, error, updatingScore, pc>>

\* Mutant of ScoresValid: the equal-scores check is missing.
ScoresValid_NoTieCheck(s1, s2) == s1 # NoScore /\ s2 # NoScore

\* Validation at the head of updateMatchScore: both scores present and unequal.
ScoresValid(s1, s2) == s1 # NoScore /\ s2 # NoScore /\ s1 # s2

\* const winnerId = score1 > score2 ? selectedMatch.player1Id : selectedMatch.player2Id
WinnerOf(sel, s1, s2) == IF s1 > s2 THEN sel.player1Id ELSE sel.player2Id

\* matches.map(match => match.id === selectedMatch.id ? {...match, score1,
\*   score2, winnerId, status: 'completed'} : match)
CompleteMatch(ms, sel, s1, s2, w) ==
  [i \in DOMAIN ms |->
     IF ms[i].id = sel.id
       THEN [ms[i] EXCEPT !.score1 = s1, !.score2 = s2, !.winnerId = w,
                          !.status = "completed"]
       ELSE ms[i]]

\* Mutant of IsNextRoundMatch: any adjacent round counts as the next round.
IsNextRoundMatch_AdjacentRound(m, sel) ==
  /\ m.round \in {sel.round - 1, sel.round + 1}
  /\ FloorHalf(sel.position) = FloorHalf(m.position)

\* matches.filter(m => m.round === selectedMatch.round + 1 &&
\*   Math.floor(selectedMatch.position / 2) === Math.floor(m.position / 2))
IsNextRoundMatch(m, sel) ==
  /\ m.round = sel.round + 1
  /\ FloorHalf(sel.position) = FloorHalf(m.position)

NextRoundMatches(ms, sel) == SelectSeq(ms, LAMBDA m : IsNextRoundMatch(m, sel))

\* Mutant of UpdatedNextMatch: the winner goes into the first free slot.
UpdatedNextMatch_FirstFree(nextMatch, sel, w) ==
  IF nextMatch.player1Id = NoPlayer
    THEN [nextMatch EXCEPT !.player1Id = w]
    ELSE [nextMatch EXCEPT !.player2Id = w]

\* const isFirstMatch = selectedMatch.position % 2 === 0;
\* updatedNextMatch = {...nextMatch, player1Id: isFirstMatch ? winnerId : ...,
\*                     player2Id: !isFirstMatch ? winnerId : ...}
UpdatedNextMatch(nextMatch, sel, w) ==
  LET isFirstMatch == sel.position % 2 = 0
  IN  [nextMatch EXCEPT
         !.player1Id = IF isFirstMatch THEN w ELSE nextMatch.player1Id,
         !.player2Id = IF ~isFirstMatch THEN w ELSE nextMatch.player2Id]

\* Mutant of ReplaceMatch: the next match is matched by round, not by id.
ReplaceMatch_ByRound(ms, upd) ==
  [i \in DOMAIN ms |->
     IF ms[i].round = upd.round
       THEN [ms[i] EXCEPT !.player1Id = upd.player1Id,
                          !.player2Id = upd.player2Id]
       ELSE ms[i]]

\* matches.map(match => match.id === nextMatch.id ? updatedNextMatch : match)
ReplaceMatch(ms, upd) ==
  [i \in DOMAIN ms |-> IF ms[i].id = upd.id THEN upd ELSE ms[i]]

\* The next-round matches the call goes on to update: nextRoundMatches[0]
\* when the filter found any.
NextTargets(ms, sel) ==
  LET nextRoundMatches == NextRoundMatches(ms, sel)
  IN  IF Len(nextRoundMatches) > 0 THEN <<nextRoundMatches[1]>> ELSE <<>>

\* The match list after the success path of updateMatchScore.  Both
\* setMatches calls are computed from the `matches` the call closed over, so
\* when a next-round match is updated the second call's list replaces the
\* first call's list.
MatchesAfterSuccess(ms, sel, s1, s2, w) ==
  LET first   == CompleteMatch(ms, sel, s1, s2, w)
      targets == NextTargets(ms, sel)
  IN  IF Len(targets) > 0
        THEN ReplaceMatch(ms, UpdatedNextMatch(targets[1], sel, w))
        ELSE first

\* body of the first PUT: {score1, score2, winnerId, status: 'completed'}
ResultRequest(sel, s1, s2, w) ==
  [matchId |-> sel.id, kind |-> "result", score1 |-> s1, score2 |-> s2,
   winnerId |-> w, player1Id |-> NoPlayer, player2Id |-> NoPlayer]

\* body of the second PUT: {player1Id, player2Id} of the updated next match
PlayersRequest(upd) ==
  [matchId |-> upd.id, kind |-> "players", score1 |-> NoScore,
   score2 |-> NoScore, winnerId |-> NoPlayer, player1Id |-> upd.player1Id,
   player2Id |-> upd.player2Id]

\* Click on "Update Result": validation, then the first PUT is sent.
UpdateMatchScore ==
  /\ UIVisible /\ selectedMatch # NoMatch /\ ~updatingScore
  /\ cl' = [matches |-> matches, sel |-> selectedMatch, score1 |-> score1,
            score2 |-> score2,
            winnerId |-> WinnerOf(selectedMatch, score1, score2),
            next |-> NoMatch,
            resubmit |-> lastOk = [id |-> selectedMatch.id, score1 |-> score1,
                                   score2 |-> score2]]
  /\ IF ~ScoresValid(score1, score2)
       THEN /\ error' = IF score1 = NoScore \/ score2 = NoScore
                          THEN "Both scores are required"
                          ELSE "Scores cannot be equal in a tournament match"
            /\ outcome' = "invalid"
            /\ sent' = <<>>
            /\ UNCHANGED <<updatingScore, pc>>
       ELSE /\ updatingScore' = TRUE
            /\ error' = ""
            /\ sent' = <<ResultRequest(selectedMatch, score1, score2,
                                       WinnerOf(selectedMatch, score1, score2))>>
            /\ pc' = "await_put"
            /\ outcome' = "running"
  /\ UNCHANGED <<matches, selectedMatch, score1, score2, lastOk>>

\* The first PUT settles: the request throws, the server answers
\* success: false, or it answers success: true.
PutResponds ==
  /\ pc = "await_put"
  /\ \E r \in {"throw", "fail", "ok"} :
       IF r # "ok"
         THEN /\ error' = IF r = "throw" THEN "Error updating match"
                                         ELSE "Failed to update match"
              /\ outcome' = IF r = "throw" THEN "threw" ELSE "failed"
              /\ updatingScore' = FALSE
              /\ pc' = "idle"
              /\ UNCHANGED <<matches, selectedMatch, cl, sent, lastOk>>
         ELSE LET targets == NextTargets(cl.matches, cl.sel)
              IN  /\ matches' = MatchesAfterSuccess(cl.matches, cl.sel, cl.score1,
                                                    cl.score2, cl.winnerId)
                  /\ IF Len(targets) > 0
                       THEN /\ cl' = [cl EXCEPT !.next = targets[1]]
                            /\ sent' = Append(sent, PlayersRequest(
                                 UpdatedNextMatch(targets[1], cl.sel, cl.winnerId)))
                            /\ pc' = "await_next"
                            /\ UNCHANGED <<selectedMatch, updatingScore, outcome,
                                           lastOk>>
                       ELSE /\ selectedMatch' = NoMatch
                            /\ updatingScore' = FALSE
                            /\ pc' = "idle"
                            /\ outcome' = "done"
                            /\ lastOk' = [id |-> cl.sel.id, score1 |-> cl.score1,
                                          score2 |-> cl.score2]
                            /\ UNCHANGED <<cl, sent>>
                  /\ UNCHANGED error
  /\ UNCHANGED <<score1, score2>>

\* The second PUT settles: its answer is not inspected, only a throw matters.
NextPutResponds ==
  /\ pc = "await_next"
  /\ \E r \in {"throw", "ok"} :
       IF r = "throw"
         THEN /\ error' = "Error updating match"
              /\ outcome' = "threw_next"
              /\ UNCHANGED <<selectedMatch, lastOk>>
         ELSE /\ selectedMatch' = NoMatch
              /\ outcome' = "done"
              /\ lastOk' = [id |-> cl.sel.id, score1 |-> cl.score1,
                            score2 |-> cl.score2]
              /\ UNCHANGED error
  /\ updatingScore' = FALSE
  /\ pc' = "idle"
  /\ UNCHANGED <<matches, score1, score2, cl, sent>>

ScoreInputs == (0..MaxScore) \cup {NoScore}

NextBracket ==
  \/ (\E i \in DOMAIN matches : SelectMatch(i)) /\ UNCHANGED exceptBracket
  \/ (\E v \in ScoreInputs : SetScore1(v)) /\ UNCHANGED exceptBracket
  \/ (\E v \in ScoreInputs : SetScore2(v)) /\ UNCHANGED exceptBracket
  \/ CancelSelection /\ UNCHANGED exceptBracket
  \/ UpdateMatchScore /\ UNCHANGED exceptBracket
  \/ PutResponds /\ UNCHANGED exceptBracket
  \/ NextPutResponds /\ UNCHANGED exceptBracket

SpecBracket == InitBracket /\ [][NextBracket]_vars

\* ------------------------------------------------------- bracket: claims
\* The call under discussion got success: true from the server and has
\* applied its setMatches calls.
CallApplied == pc = "await_next" \/ outcome \in {"done", "threw_next"}

\* A match of round r+1 was loaded, r the round of the submitted match.
NextRoundExists == \E i \in DOMAIN cl.matches : cl.matches[i].round = cl.sel.round + 1

SamePlayers(m, old) == m.player1Id = old.player1Id /\ m.player2Id = old.player2Id

\* C1 (as claimed): after a result is recorded for round r, position p while
\* round r+1 exists, the winner sits in the round r+1 match at position
\* floor(p/2), and no other match had a player slot written.
C1_WinnerInFloorHalfMatch ==
  (CallApplied /\ NextRoundExists) =>
    \A i \in DOMAIN matches :
      IF /\ matches[i].round = cl.sel.round + 1
         /\ matches[i].position = FloorHalf(cl.sel.position)
        THEN cl.winnerId \in {matches[i].player1Id, matches[i].player2Id}
        ELSE SamePlayers(matches[i], cl.matches[i])

\* C2 (as claimed): the round r+1 match at floor(p/2) holds the winner in
\* player1Id when p is even and in player2Id when p is odd, and its other
\* slot is as before.
C2_WinnerInParitySlot ==
  (CallApplied /\ NextRoundExists) =>
    \A i \in DOMAIN matches :
      (/\ matches[i].round = cl.sel.round + 1
       /\ matches[i].position = FloorHalf(cl.sel.position)) =>
        IF cl.sel.position % 2 = 0
          THEN /\ matches[i].player1Id = cl.winnerId
               /\ matches[i].player2Id = cl.matches[i].player2Id
          ELSE /\ matches[i].player2Id = cl.winnerId
               /\ matches[i].player1Id = cl.matches[i].player1Id

\* C3 (as claimed): after a successful call the submitted match is completed
\* in the match list, with the submitted scores and the winner they decide.
C3_SubmittedMatchCompleted ==
  CallApplied =>
    \A i \in DOMAIN matches :
      matches[i].id = cl.sel.id =>
        /\ matches[i].status = "completed"
        /\ matches[i].score1 = cl.score1
        /\ matches[i].score2 = cl.score2
        /\ matches[i].winnerId = IF cl.score1 > cl.score2
                                   THEN matches[i].player1Id
                                   ELSE matches[i].player2Id

\* C4: a submission with a missing score or with equal scores ends in a
\* validation error, leaves every match as it was and sends no request; a
\* submission with two different scores is not rejected.
C4_InvalidScoresRejected ==
  outcome # "none" =>
    IF cl.score1 = NoScore \/ cl.score2 = NoScore \/ cl.score1 = cl.score2
      THEN /\ outcome = "invalid"
           /\ error \in {"Both scores are required",
                         "Scores cannot be equal in a tournament match"}
           /\ matches = cl.matches
           /\ sent = <<>>
           /\ pc = "idle"
      ELSE outcome # "invalid"

C4_Witness ==
  /\ outcome = "invalid"
  /\ cl.score1 # NoScore /\ cl.score1 = cl.score2
  /\ error = "Scores cannot be equal in a tournament match"

\* C5: a result recorded for a match of the last round ends without error,
\* completes that match, leaves every other match as it was and sends the
\* result request only.
C5_FinalMatchNoPropagation ==
  (outcome # "none" /\ ~NextRoundExists) =>
    /\ pc # "await_next"
    /\ outcome # "threw_next"
    /\ outcome = "done" =>
         /\ error = ""
         /\ Len(sent) = 1 /\ sent[1].kind = "result" /\ sent[1].matchId = cl.sel.id
         /\ \A i \in DOMAIN matches :
              IF matches[i].id = cl.sel.id
                THEN matches[i] = [cl.matches[i] EXCEPT
                                     !.status = "completed",
                                     !.score1 = cl.score1,
                                     !.score2 = cl.score2,
                                     !.winnerId = cl.winnerId]
                ELSE matches[i] = cl.matches[i]

C5_Witness ==
  /\ outcome = "done" /\ ~NextRoundExists
  /\ \E i \in DOMAIN matches :
       /\ matches[i].id = cl.sel.id
       /\ matches[i].status = "completed"
       /\ cl.matches[i].status = "pending"

\* C6: recording again the result that was recorded last, for the same
\* match, leaves the match list exactly as the first recording left it.
C6_ResubmitIdempotent ==
  (outcome = "done" /\ cl.resubmit) => matches = cl.matches

C6_Witness ==
  /\ outcome = "done" /\ cl.resubmit
  /\ cl.next # NoMatch
  /\ cl.winnerId \in {cl.next.player1Id, cl.next.player2Id}

\* C7: one call changes at most the submitted match and the player slots of
\* one match of the next round; a call that is rejected or fails changes
\* no match.
C7_OneCallFrame ==
  outcome # "none" =>
    IF CallApplied
      THEN /\ \A i \in DOMAIN matches :
                \/ matches[i] = cl.matches[i]
                \/ matches[i].id = cl.sel.id
                \/ /\ matches[i].round = cl.sel.round + 1
                   /\ matches[i] = [cl.matches[i] EXCEPT
                                      !.player1Id = matches[i].player1Id,
                                      !.player2Id = matches[i].player2Id]
           /\ Cardinality({i \in DOMAIN matches :
                             /\ matches[i].round = cl.sel.round + 1
                             /\ matches[i] # cl.matches[i]}) <= 1
      ELSE matches = cl.matches

C7_Witness ==
  /\ outcome = "done"
  /\ cl.next # NoMatch
  /\ \E i \in DOMAIN matches :
       /\ matches[i].id = cl.next.id
       /\ matches[i] # cl.matches[i]

\* C8 (as claimed): a result is recorded only for a match with both players,
\* and every completed match has a winner who is one of its two players.
C8_CompletedWinnerIsPlayer ==
  /\ outcome # "none" =>
       cl.sel.player1Id # NoPlayer /\ cl.sel.player2Id # NoPlayer
  /\ \A i \in DOMAIN matches :
       matches[i].status = "completed" =>
         /\ matches[i].winnerId # NoPlayer
         /\ matches[i].winnerId \in {matches[i].player1Id, matches[i].player2Id}

\* C25: once an error is set (a rejected submission, a failed response or a
\* thrown request) it stays set, no match is selected, no score is entered and
\* no request is sent, so the match list never changes again.
C25_ErrorIsFinal ==
  [][error # "" =>
       /\ error' = error
       /\ matches' = matches
       /\ selectedMatch' = selectedMatch
       /\ score1' = score1 /\ score2' = score2
       /\ sent' = sent /\ pc' = pc]_vars

\* The request for the next-round match threw after the result was applied to
\* the list; the component shows the error text.
C25_Witness ==
  /\ error = "Error updating match"
  /\ outcome = "threw_next"
  /\ matches # cl.matches
  /\ selectedMatch # NoMatch

\* A match of the first round with exactly one player: a bye.
IsBye(m) ==
  /\ m.round = 0
  /\ (m.player1Id = NoPlayer) # (m.player2Id = NoPlayer)

SolePlayer(m) == IF m.player1Id # NoPlayer THEN m.player1Id ELSE m.player2Id

\* C21 (as claimed): the sole player of a bye holds the slot of the bye's
\* parity in the next-round match without a result being recorded for the
\* bye, in every state of a bracket that was loaded with a bye.
C21_ByeAdvances ==
  \A i, n \in DOMAIN matches :
    (/\ IsBye(matches[i])
     /\ matches[n].round = 1
     /\ matches[n].position = FloorHalf(matches[i].position)) =>
      /\ matches[i].status # "completed"
      /\ IF matches[i].position % 2 = 0
           THEN matches[n].player1Id = SolePlayer(matches[i])
           ELSE matches[n].player2Id = SolePlayer(matches[i])

\* --------------------------------------------------- scoresheet: steps
\* Mutant of InitialValues: no component runs a recalculation loop when it
\* loads a sheet.
InitialValues_DefaultsOnly(comp, tp) == DefaultValues(tp)

\* The mapping a component shows first.  The renderer's fetchData ends with
\* one recalculation loop over the defaults (a new session has no saved
\* values); the generator's initializeScoresheet stores the defaults.
InitialValues(comp, tp) ==
  IF comp = "renderer"
    THEN RecomputePass(FieldsOf(tp), KeysOf(tp), DefaultValues(tp))
    ELSE DefaultValues(tp)

InitSheet ==
  /\ OnlySheet
  /\ component \in {"renderer", "generator"}
  /\ readOnly \in IF component = "renderer" THEN BOOLEAN ELSE {FALSE}
  /\ template \in DOMAIN Templates
  /\ edit = NoEdit
  /\ before = DefaultValues(template)
  /\ values = InitialValues(component, template)
  /\ saving = FALSE /\ request = NoRequest /\ sheetError = "" /\ route = ""
  /\ called = ""

NumberInputs == {0 - 1, 0} \cup (7..MaxNumber)

\* What a text input can be given.
TextInputs == {"Bard"}

\* What the input of a field hands to handleFieldChange:
\* parseFloat(e.target.value) || 0 for a number field, e.target.value for a
\* text field, e.target.checked for a checkbox, the value of one of the
\* options for a dropdown; the input of a calculation field is read-only.
InputsOf(field) ==
  CASE field.type = "number"   -> {Num(n) : n \in NumberInputs}
    [] field.type = "text"     -> {Str(x) : x \in TextInputs}
    [] field.type = "checkbox" -> {Bool(b) : b \in BOOLEAN}
    [] field.type = "dropdown" ->
         {Str(field.options[k]) : k \in DOMAIN field.options}
    [] OTHER -> {}

\* Mutant of HandleFieldChange: the recalculation loop runs on the mapping
\* as it was, and the edited value is stored after it.
HandleFieldChange_PassBeforeEdit(fieldId, value) ==
  /\ IF readOnly
       THEN UNCHANGED <<values, edit, before>>
       ELSE /\ before' = [values EXCEPT ![fieldId] = value]
            /\ values' = [RecomputePass(FieldsOf(template), KeysOf(template),
                                        values) EXCEPT ![fieldId] = value]
            /\ edit' = [id |-> fieldId, value |-> value]
  /\ called' = "handleFieldChange"
  /\ UNCHANGED <<component, readOnly, template, saving, request, sheetError, route>>

\* Mutant of HandleFieldChange: no if (readOnly) return.
HandleFieldChange_IgnoreReadOnly(fieldId, value) ==
  /\ before' = [values EXCEPT ![fieldId] = value]
  /\ values' = RecomputePass(FieldsOf(template), KeysOf(template),
                             [values EXCEPT ![fieldId] = value])
  /\ edit' = [id |-> fieldId, value |-> value]
  /\ called' = "handleFieldChange"
  /\ UNCHANGED <<component, readOnly, template, saving, request, sheetError, route>>

\* if (readOnly) return; newValues = {...prev, [fieldId]: value}, then the
\* recalculation loop.
HandleFieldChange(fieldId, value) ==
  /\ IF readOnly
       THEN UNCHANGED <<values, edit, before>>
       ELSE /\ before' = [values EXCEPT ![fieldId] = value]
            /\ values' = RecomputePass(FieldsOf(template), KeysOf(template),
                                       [values EXCEPT ![fieldId] = value])
            /\ edit' = [id |-> fieldId, value |-> value]
  /\ called' = "handleFieldChange"
  /\ UNCHANGED <<component, readOnly, template, saving, request, sheetError, route>>

\* The fetch of saveScoresheet: the renderer PUTs the entries of values to
\* the session, the generator POSTs scoresheetData as a new session.
SaveRequest ==
  IF component = "renderer"
    THEN [method |-> "PUT", url |-> "/api/sessions/id/values", values |-> values]
    ELSE [method |-> "POST", url |-> "/api/sessions", values |-> values]

\* Mutant of SaveScoresheet: no if (readOnly) return.
SaveScoresheet_IgnoreReadOnly ==
  /\ saving' = TRUE /\ request' = SaveRequest
  /\ called' = "saveScoresheet"
  /\ UNCHANGED <<component, readOnly, template, values, edit, before,
                 sheetError, route>>

\* saveScoresheet up to its await: if (readOnly) return (the generator has
\* no readOnly); setSaving(true) / setLoading(true); fetch.
SaveScoresheet ==
  /\ IF readOnly
       THEN UNCHANGED <<saving, request>>
       ELSE saving' = TRUE /\ request' = SaveRequest
  /\ called' = "saveScoresheet"
  /\ UNCHANGED <<component, readOnly, template, values, edit, before,
                 sheetError, route>>

\* What the server can do with a save: answer success: true, answer
\* success: false, or fail so that fetch or response.json() throws.
SaveOutcomes == {"ok", "refused", "threw"}

\* saveScoresheet after its await.  The renderer shows data.error or a
\* fixed text when the save was refused; the generator goes to the page of
\* the new session when it was accepted.  finally: setSaving(false).
SaveResponds(answer) ==
  /\ saving
  /\ saving' = FALSE /\ request' = NoRequest
  /\ sheetError' = CASE answer = "ok" -> sheetError
                      [] answer = "refused" ->
                           IF component = "renderer" THEN "Failed to save values"
                           ELSE "Failed to save scoresheet"
                      [] answer = "threw" ->
                           IF component = "renderer" THEN "Error saving values"
                           ELSE "Error saving scoresheet"
  /\ route' = IF answer = "ok" /\ component = "generator"
                THEN "/sessions/id" ELSE route
  /\ called' = "saveScoresheet response"
  /\ UNCHANGED <<component, readOnly, template, values, edit, before>>

\* The sheet and its buttons are on the screen: no error replaced them, the
\* generator has not left for the session page.  While a save waits for its
\* response the generator shows its loading text and the renderer disables
\* its Save button; the renderer's inputs stay enabled then, but an edit and
\* the response touch different variables, so an edit made while waiting
\* leads to the state the same edit leads to after the response, and edits
\* are taken up once the response is there.
SheetShown == sheetError = "" /\ route = "" /\ ~saving

NextSheet ==
  \/ /\ SheetShown
     /\ \E i \in DOMAIN FieldsOf(template) :
          \E v \in InputsOf(FieldsOf(template)[i]) :
            HandleFieldChange(FieldsOf(template)[i].id, v)
     /\ UNCHANGED exceptSheet
  \/ SheetShown /\ SaveScoresheet /\ UNCHANGED exceptSheet
  \/ (\E answer \in SaveOutcomes : SaveResponds(answer)) /\ UNCHANGED exceptSheet

SpecSheet == InitSheet /\ [][NextSheet]_vars

\* --------------------------------------------------- scoresheet: claims
\* C9: with the formula Math.floor((strength - 10) / 2), setting strength to
\* v leaves str_mod at floor((v - 10) / 2): 2 for v = 14, -1 for v = 8.
C9_AbilityModifier ==
  (template = 1 /\ edit.id = "strength") =>
    /\ values["str_mod"] = Num((edit.value.n - 10) \div 2)
    /\ edit.value = Num(14) => values["str_mod"] = Num(2)
    /\ edit.value = Num(8) => values["str_mod"] = Num(-1)
    /\ edit.value = Num(7) => values["str_mod"] = Num(-2)

C9_Witness ==
  /\ template = 1 /\ edit = [id |-> "strength", value |-> Num(8)]
  /\ values["strength"] = Num(8) /\ values["str_mod"] = Num(-1)

\* The mapping a calculation field was evaluated on: the fields before it in
\* template order as the pass left them, the others as they were before it.
MappingAt(i) ==
  [id \in DOMAIN values |->
     IF \E j \in 1..(i - 1) : FieldsOf(template)[j].id = id
       THEN values[id] ELSE before[id]]

\* C10: in a recalculation pass a calculation field whose formula throws
\* keeps the value it had before the pass, and every other calculation field
\* holds the value of its formula.
C10_FailureIsolated ==
  edit # NoEdit =>
    \A i \in DOMAIN FieldsOf(template) :
      LET field  == FieldsOf(template)[i]
          result == Eval(SubstituteAll(field.formula, KeysOf(template),
                                       MappingAt(i)))
      IN  IsCalculated(field) =>
            IF result = Threw THEN values[field.id] = before[field.id]
                              ELSE values[field.id] = result

C10_Witness ==
  /\ template = 2 /\ edit.id = "points" /\ edit.value = Num(8)
  /\ values["total"] = Str("") /\ values["broken"] = Str("")
  /\ values["twice"] = Num(16) /\ values["bonus"] = Num(17)

RECURSIVE References(_)
\* The identifiers in the text of a formula.
References(f) ==
  CASE f[1] = "ref" -> {f[2]}
    [] f[1] \in {"add", "sub"} -> References(f[2]) \cup References(f[3])
    [] f[1] = "floordiv" -> References(f[2])
    [] OTHER -> {}

\* The places of the calculation fields of a template, in template order.
CalculatedAt(tp) ==
  {i \in DOMAIN FieldsOf(tp) : IsCalculated(FieldsOf(tp)[i])}

\* No formula of the template names its own field or a calculation field
\* declared after it.
DeclaredBeforeUse(tp) ==
  \A i \in CalculatedAt(tp) : \A j \in CalculatedAt(tp) :
    FieldsOf(tp)[j].id \in References(FieldsOf(tp)[i].formula) => j < i

\* The edit left every input as the renderer first showed it.
NoOpAfterLoad ==
  /\ component = "renderer" /\ edit # NoEdit
  /\ before = InitialValues(component, template)

\* C11 as stated: for all templates, the recalculation run by a no-op edit
\* right after the renderer loaded the sheet leaves every calculation field
\* at the value the load gave it.
C11_NoOpRecomputeSame ==
  NoOpAfterLoad =>
    \A i \in CalculatedAt(template) :
      values[FieldsOf(template)[i].id] =
        InitialValues(component, template)[FieldsOf(template)[i].id]

\* C11 amended: the same, for templates in which no formula names its own
\* field or a calculation field declared after it.
C11_NoOpRecomputeSame_DeclaredBeforeUse ==
  (NoOpAfterLoad /\ DeclaredBeforeUse(template)) =>
    \A i \in CalculatedAt(template) :
      values[FieldsOf(template)[i].id] =
        InitialValues(component, template)[FieldsOf(template)[i].id]

C11_Witness ==
  /\ NoOpAfterLoad /\ template = 1
  /\ edit = [id |-> "dexterity", value |-> Num(10)]
  /\ values["dex_mod"] = Num(0) /\ values["initiative"] = Num(0)

\* The value of a formula on the mapping as it is now.
ValueNow(field) == Eval(SubstituteAll(field.formula, KeysOf(template), values))

\* C12 as stated: after an edit every calculation field holds the value of
\* its formula on the mapping the edit and its pass left.
C12_ConsistentAfterEdit ==
  edit # NoEdit =>
    \A i \in CalculatedAt(template) :
      ValueNow(FieldsOf(template)[i]) # Threw =>
        values[FieldsOf(template)[i].id] = ValueNow(FieldsOf(template)[i])

\* C12 amended: the same, for templates in which no formula names its own
\* field or a calculation field declared after it.
C12_ConsistentAfterEdit_DeclaredBeforeUse ==
  (edit # NoEdit /\ DeclaredBeforeUse(template)) =>
    \A i \in CalculatedAt(template) :
      ValueNow(FieldsOf(template)[i]) # Threw =>
        values[FieldsOf(template)[i].id] = ValueNow(FieldsOf(template)[i])

C12_Witness ==
  /\ template = 1 /\ edit = [id |-> "dexterity", value |-> Num(14)]
  /\ values["dexterity"] = Num(14) /\ values["dex_mod"] = Num(2)
  /\ values["initiative"] = Num(2) /\ values["str_mod"] = Num(0)

\* What the formula at place i read for the field id when its turn came: a
\* calculation field declared before it had been recomputed in this pass,
\* every other field still held what it held when the pass began.
SeenAt(i) ==
  [id \in DOMAIN values |->
     IF \E j \in CalculatedAt(template) : j < i /\ FieldsOf(template)[j].id = id
       THEN values[id] ELSE before[id]]

\* C13: the pass computes every calculation field once, in template order:
\* the value it leaves for a field is its formula on the values of this pass
\* for the calculation fields declared before it and on the values from
\* before the pass for those declared after it (and for itself).
C13_SinglePassInOrder ==
  edit # NoEdit =>
    /\ \A i \in CalculatedAt(template) :
         LET field == FieldsOf(template)[i]
             seen  == Eval(SubstituteAll(field.formula, KeysOf(template), SeenAt(i)))
         IN  seen # Threw => values[field.id] = seen
    /\ (template = 3 /\ before["late"].t = "num") =>
         /\ values["early"] = Num(before["late"].n + 1)
         /\ values["late"] = Num(values["base"].n + 1)
    /\ template = 1 => values["initiative"] = values["dex_mod"]

\* base is set to 8 in the renderer: early is computed from the late of the
\* load (1), late from the new base.
C13_Witness ==
  /\ template = 3 /\ component = "renderer"
  /\ edit = [id |-> "base", value |-> Num(8)]
  /\ before["late"] = Num(1)
  /\ values["early"] = Num(2) /\ values["late"] = Num(9)

\* C14: the mapping a component starts from has one entry per field of the
\* template: the field's defaultValue when it has one, else 0 for a number,
\* false for a checkbox, the first option for a dropdown with options, and
\* '' for a dropdown without options, a text and a calculation field.
C14_DefaultsByType ==
  edit = NoEdit =>
    /\ DOMAIN values = FieldIds(template)
    /\ Cardinality(FieldIds(template)) = Len(FieldsOf(template))
    /\ \A i \in DOMAIN FieldsOf(template) :
         LET field == FieldsOf(template)[i]
         IN  (component = "generator" \/ ~IsCalculated(field)) =>
               values[field.id] =
                 CASE field.hasDefault -> field.defaultValue
                   [] ~field.hasDefault /\ field.type = "number" -> Num(0)
                   [] ~field.hasDefault /\ field.type = "checkbox" -> Bool(FALSE)
                   [] ~field.hasDefault /\ field.type = "dropdown"
                        /\ field.options # <<>> -> Str(field.options[1])
                   [] OTHER -> Str("")
    /\ template = 4 =>
         /\ values["level"] = Num(1) /\ values["rank"] = Str("")
         /\ values["alignment"] = Str("Lawful Good")
         /\ values["deity"] = Str("") /\ values["summary"] = Str("")

C14_Witness ==
  /\ edit = NoEdit /\ template = 4 /\ component = "generator"
  /\ values["character_name"] = Str("") /\ values["alignment"] = Str("Lawful Good")
  /\ values["level"] = Num(1) /\ values["inspiration"] = Bool(FALSE)
  /\ values["notes"] = Str("") /\ values["deity"] = Str("")
  /\ values["rank"] = Str("") /\ values["summary"] = Str("")

\* C15: whichever component loaded the sheet, before the first edit every
\* calculation field holds what one recalculation pass over the defaults
\* gives it (its computed value when its formula can be evaluated).
C15_CalculatedBeforeFirstEdit ==
  edit = NoEdit =>
    \A i \in CalculatedAt(template) :
      values[FieldsOf(template)[i].id] =
        RecomputePass(FieldsOf(template), KeysOf(template),
                      DefaultValues(template))[FieldsOf(template)[i].id]

\* The field of the template with the given id.
FieldOf(tp, id) ==
  FieldsOf(tp)[CHOOSE i \in DOMAIN FieldsOf(tp) : FieldsOf(tp)[i].id = id]

\* C16: no edit that changed the mapping gave a number field a value below
\* its min or above its max.
C16_OutOfRangeRejected ==
  (edit # NoEdit /\ FieldOf(template, edit.id).type = "number") =>
    /\ FieldOf(template, edit.id).min <= edit.value.n
    /\ edit.value.n <= FieldOf(template, edit.id).max

\* C17: in a read-only session the mapping is the one that was loaded and no
\* save is under way, whatever handlers have been called.
C17_ReadOnlyFrame ==
  readOnly =>
    /\ values = InitialValues(component, template)
    /\ edit = NoEdit
    /\ request = NoRequest /\ ~saving /\ sheetError = ""

\* saveScoresheet has been called on a read-only D&D sheet.
C17_Witness ==
  /\ readOnly /\ template = 1 /\ called = "saveScoresheet"
  /\ values["strength"] = Num(10) /\ request = NoRequest

\* Every formula of the template names only fields of the template, and of
\* its calculation fields only ones declared before its own.
ReferencesDeclared(tp) ==
  /\ DeclaredBeforeUse(tp)
  /\ \A i \in CalculatedAt(tp) :
       References(FieldsOf(tp)[i].formula) \subseteq FieldIds(tp)

\* C23: in a template whose formulas reference only non-calculation fields
\* and calculation fields declared earlier, after every handleFieldChange
\* each calculation field holds the value of its formula on the resulting
\* mapping; in the D&D template initiative equals dex_mod, athletics equals
\* str_mod, and the modifiers equal floor((ability - 10) / 2).
C23_BackwardReferencesConsistent ==
  (edit # NoEdit /\ ReferencesDeclared(template)) =>
    /\ \A i \in CalculatedAt(template) :
         values[FieldsOf(template)[i].id] = ValueNow(FieldsOf(template)[i])
    /\ template = 1 =>
         /\ values["dex_mod"] = Num((values["dexterity"].n - 10) \div 2)
         /\ values["str_mod"] = Num((values["strength"].n - 10) \div 2)
         /\ values["initiative"] = values["dex_mod"]
         /\ values["athletics"] = values["str_mod"]

\* strength was set to 14 and then dexterity to 9 in the D&D sheet.
C23_Witness ==
  /\ template = 1 /\ ReferencesDeclared(template)
  /\ edit = [id |-> "dexterity", value |-> Num(9)]
  /\ values["dex_mod"] = Num(0 - 1) /\ values["initiative"] = Num(0 - 1)
  /\ values["strength"] = Num(14) /\ values["athletics"] = Num(2)

\* ------------------------------------------------- scoresheet API: data
\* Requests received in one run.
MaxRequests == 2

\* The browsers sending requests.
Clients == {1, 2}

\* The ids requests name: s1 is stored at first, s2 never is.
ScoresheetIds == {"s1", "s2"}

\* SQL NULL / JavaScript null.
Null == [t |-> "null", n |-> 0, s |-> ""]

\* !v
Falsy(v) == v \in {Undefined, Null, NaN, Num(0), Bool(FALSE), Str("")}

\* v || null
OrNull(v) == IF Falsy(v) THEN Null ELSE v

\* What a column of type TEXT keeps of a bound value: a number (and a
\* boolean, bound as 1 or 0) is stored as its text.
TextAffinity(v) == IF IsNumeric(v) THEN Str(ToString(v.n)) ELSE v

\* A formula column that is NULL.
NullFormula == <<"null">>

\* field.formula || null
FormulaOrNull(f) == IF f = NoFormula THEN NullFormula ELSE f

\* field.options ? JSON.stringify(field.options) : null
OptionsColumn(field) ==
  IF field.hasOptions THEN [null |-> FALSE, json |-> field.options]
  ELSE [null |-> TRUE, json |-> <<>>]

\* A field of a request body (interface ScoresheetField); an absent
\* defaultValue, min or max is Undefined, an absent formula NoFormula.
BodyField(id, name, type, defaultValue, hasOptions, options, formula, min, max) ==
  [id |-> id, name |-> name, type |-> type, defaultValue |-> defaultValue,
   hasOptions |-> hasOptions, options |-> options, formula |-> formula,
   min |-> min, max |-> max]

\* The body {}: no name, no subcategories.  Also what a GET or DELETE has.
EmptyBody ==
  [parses |-> TRUE, name |-> "", hasSubcategories |-> FALSE, subcategories |-> <<>>]

\* A body that is not JSON: request.json() throws.
MalformedBody == [EmptyBody EXCEPT !.parses = FALSE]

\* { name: 'Renamed' }
RenameBody == [EmptyBody EXCEPT !.name = "Renamed"]

\* The Ability Scores subcategory of the D&D 5e template, one ability and
\* its modifier.
DndBody ==
  [parses |-> TRUE, name |-> "D&D 5e Character Sheet", hasSubcategories |-> TRUE,
   subcategories |->
     << [name |-> "Ability Scores", hasFields |-> TRUE,
         fields |->
           << BodyField("strength", "Strength", "number", Num(10), FALSE, <<>>,
                        NoFormula, Num(1), Num(30)),
              BodyField("str_mod", "Strength Modifier", "calculation", Undefined,
                        FALSE, <<>>, AbilityModifier("strength"),
                        Undefined, Undefined) >>] >>]

\* Subcategories as the template builder sends them, without a name for the
\* scoresheet: a new number field (default 0, min 0, max 100), and a
\* subcategory that has no fields array.
BuilderBody ==
  [parses |-> TRUE, name |-> "", hasSubcategories |-> TRUE,
   subcategories |->
     << [name |-> "Scores", hasFields |-> TRUE,
         fields |->
           << BodyField("field1", "Number Field", "number", Num(0), FALSE, <<>>,
                        NoFormula, Num(0), Num(100)) >>],
        [name |-> "Notes", hasFields |-> FALSE, fields |-> <<>>] >>]

PutBodies == {MalformedBody, RenameBody, DndBody, BuilderBody}

\* crypto.randomUUID(), n-th of the ids it can give.
Uuid(n) == "uuid-" \o ToString(n)

\* A row of scoresheet_subcategories.
SubcategoryRow(id, scoresheetId, subcategory, i) ==
  [id |-> id, scoresheet_id |-> scoresheetId, name |-> subcategory.name,
   display_order |-> i]

\* A row of scoresheet_fields as PUT binds it.
FieldRow(id, subcategoryId, field, j) ==
  [id |-> id, subcategory_id |-> subcategoryId, name |-> field.name,
   type |-> field.type,
   default_value |-> TextAffinity(OrNull(field.defaultValue)),
   options |-> OptionsColumn(field),
   formula |-> FormulaOrNull(field.formula),
   min_value |-> OrNull(field.min), max_value |-> OrNull(field.max),
   display_order |-> j]

\* The subcategories of a scoresheet, and the fields of those
\* subcategories, in the given tables.
RowsIn(subcategories, fields, id) ==
  LET own == {sub \in subcategories : sub.scoresheet_id = id}
  IN  [subcategories |-> own,
       fields |-> {f \in fields : \E sub \in own : f.subcategory_id = sub.id}]

NoRows == [subcategories |-> {}, fields |-> {}]

\* A client that has sent nothing.
NoApiRequest ==
  [method |-> "", id |-> "", body |-> EmptyBody, pc |-> "idle", status |-> 0,
   scoresheet |-> "", i |-> 0, j |-> 0, subcategoryId |-> "",
   rows |-> {}, data |-> NoRows,
   known |-> FALSE, wrote |-> FALSE, had |-> NoRows, after |-> NoRows]

\* ids that rows or running handlers hold.
UsedUuids ==
  {sub.id : sub \in scoresheet_subcategories}
    \cup {f.id : f \in scoresheet_fields}
    \cup {f.subcategory_id : f \in scoresheet_fields}
    \cup {requests[c].subcategoryId : c \in Clients}

\* crypto.randomUUID(): an id nothing holds.  Ids are only ever compared
\* for equality, so the first free one stands for any fresh one.
FreshUuid ==
  Uuid(CHOOSE n \in 1..(Cardinality(UsedUuids) + 1) :
         /\ Uuid(n) \notin UsedUuids
         /\ \A m \in 1..(n - 1) : Uuid(m) \in UsedUuids)

\* The store at first: scoresheet s1 with one subcategory and one field.
InitApi ==
  /\ OnlyApi
  /\ scoresheets = [id \in {"s1"} |-> "Scoresheet"]
  /\ scoresheet_subcategories =
       {SubcategoryRow(Uuid(1), "s1", [name |-> "General"], 0)}
  /\ scoresheet_fields =
       {FieldRow(Uuid(2), Uuid(1),
                 BodyField("score", "Score", "number", Num(5), FALSE, <<>>,
                           NoFormula, Undefined, Undefined), 0)}
  /\ requests = [c \in Clients |-> NoApiRequest]
  /\ received = 0
  /\ foreign_keys \in BOOLEAN

\* ------------------------------------------------ scoresheet API: steps
\* Every await of a handler ends a step: statements of two requests can
\* alternate.

\* The handler of client c returns: NextResponse.json(..., { status }).  The
\* entry after keeps the rows the scoresheet has in the store at that time.
Respond(c, status, subcategories, fields) ==
  [requests[c] EXCEPT !.pc = "done", !.status = status,
                      !.after = RowsIn(subcategories, fields, requests[c].id)]

\* A request arrives and its handler starts.  PUT begins with
\* await request.json(), which throws on a body that is not JSON; the catch
\* block answers 500.
Receive(c, method, id, body) ==
  /\ received < MaxRequests
  /\ requests[c].pc \in {"idle", "done"}
  /\ received' = received + 1
  /\ LET start == [NoApiRequest EXCEPT
                     !.method = method, !.id = id, !.body = body,
                     !.pc = "select",
                     !.known = (id \in DOMAIN scoresheets),
                     !.had = RowsIn(scoresheet_subcategories, scoresheet_fields, id)]
     IN  requests' =
           [requests EXCEPT ![c] =
              IF method = "PUT" /\ ~body.parses
                THEN [start EXCEPT !.pc = "done", !.status = 500, !.after = start.had]
                ELSE start]
  /\ UNCHANGED <<scoresheets, scoresheet_subcategories, scoresheet_fields, foreign_keys>>

\* Every stored field names a stored subcategory and every stored
\* subcategory a stored scoresheet: the two FOREIGN KEY clauses of the tables.
ForeignKeysHold(sheets, subcategories, fields) ==
  /\ \A f \in fields : \E sub \in subcategories : f.subcategory_id = sub.id
  /\ \A sub \in subcategories : sub.scoresheet_id \in DOMAIN sheets

\* Mutant of Rejected: the store accepts every statement.
Rejected_Never(sheets, subcategories, fields) == FALSE

\* A store that enforces the foreign keys rejects the statement that would
\* leave the tables as given; the statement changes nothing and throws.
Rejected(sheets, subcategories, fields) ==
  foreign_keys /\ ~ForeignKeysHold(sheets, subcategories, fields)

\* A statement threw: the catch block of the handler answers 500.
Caught(c) ==
  [Respond(c, 500, scoresheet_subcategories, scoresheet_fields)
     EXCEPT !.subcategoryId = ""]

\* Mutant of Missing: the handlers go on whatever the SELECT returned.
Missing_Never(id) == FALSE

\* !scoresheet, for the row SELECT * FROM scoresheets WHERE id = ? gave.
Missing(id) == id \notin DOMAIN scoresheets

\* The existence check of GET, PUT and DELETE.
SelectScoresheet(c) ==
  /\ requests[c].pc = "select"
  /\ requests' =
       [requests EXCEPT ![c] =
          IF Missing(requests[c].id)
            THEN Respond(c, 404, scoresheet_subcategories, scoresheet_fields)
            ELSE [requests[c] EXCEPT
                    !.scoresheet = IF requests[c].id \in DOMAIN scoresheets
                                     THEN scoresheets[requests[c].id] ELSE "",
                    !.pc = CASE requests[c].method = "GET" -> "select_subcategories"
                             [] requests[c].method = "PUT" -> "update"
                             [] OTHER -> "delete_fields"]]
  /\ UNCHANGED <<scoresheets, scoresheet_subcategories, scoresheet_fields, received, foreign_keys>>

\* GET: SELECT * FROM scoresheet_subcategories WHERE scoresheet_id = ?
SelectSubcategories(c) ==
  /\ requests[c].pc = "select_subcategories"
  /\ requests' =
       [requests EXCEPT ![c] =
          [requests[c] EXCEPT
             !.rows = {sub \in scoresheet_subcategories :
                         sub.scoresheet_id = requests[c].id},
             !.pc = "select_fields"]]
  /\ UNCHANGED <<scoresheets, scoresheet_subcategories, scoresheet_fields, received, foreign_keys>>

\* GET: the SELECTs of the fields, one per subcategory read (Promise.all),
\* and the response.
SelectFields(c) ==
  /\ requests[c].pc = "select_fields"
  /\ requests' =
       [requests EXCEPT ![c] =
          [Respond(c, 200, scoresheet_subcategories, scoresheet_fields) EXCEPT
             !.data = [subcategories |-> requests[c].rows,
                       fields |-> {f \in scoresheet_fields :
                                     \E sub \in requests[c].rows :
                                       f.subcategory_id = sub.id}]]]
  /\ UNCHANGED <<scoresheets, scoresheet_subcategories, scoresheet_fields, received, foreign_keys>>

\* PUT: UPDATE scoresheets SET name = ? WHERE id = ?, with
\* body.name || scoresheet.name; the response if the body has no
\* subcategories array.
UpdateScoresheet(c) ==
  /\ requests[c].pc = "update"
  /\ scoresheets' =
       [id \in DOMAIN scoresheets |->
          IF id = requests[c].id
            THEN IF requests[c].body.name # "" THEN requests[c].body.name
                 ELSE requests[c].scoresheet
            ELSE scoresheets[id]]
  /\ requests' =
       [requests EXCEPT ![c] =
          IF requests[c].body.hasSubcategories
            THEN [requests[c] EXCEPT !.wrote = TRUE, !.pc = "delete_fields"]
            ELSE [Respond(c, 200, scoresheet_subcategories, scoresheet_fields)
                    EXCEPT !.wrote = TRUE]]
  /\ UNCHANGED <<scoresheet_subcategories, scoresheet_fields, received, foreign_keys>>

\* PUT and DELETE: DELETE FROM scoresheet_fields WHERE subcategory_id IN
\* (SELECT id FROM scoresheet_subcategories WHERE scoresheet_id = ?)
DeleteFields(c) ==
  /\ requests[c].pc = "delete_fields"
  /\ scoresheet_fields' =
       {f \in scoresheet_fields :
          ~\E sub \in scoresheet_subcategories :
             sub.scoresheet_id = requests[c].id /\ f.subcategory_id = sub.id}
  /\ requests' =
       [requests EXCEPT ![c] =
          [requests[c] EXCEPT !.wrote = TRUE, !.pc = "delete_subcategories"]]
  /\ UNCHANGED <<scoresheets, scoresheet_subcategories, received, foreign_keys>>

\* PUT and DELETE: DELETE FROM scoresheet_subcategories WHERE
\* scoresheet_id = ?; the response of a PUT whose array is empty.
DeleteSubcategories(c) ==
  /\ requests[c].pc = "delete_subcategories"
  /\ scoresheet_subcategories' =
       IF Rejected(scoresheets, {sub \in scoresheet_subcategories :
                                   sub.scoresheet_id # requests[c].id},
                   scoresheet_fields)
         THEN scoresheet_subcategories
         ELSE {sub \in scoresheet_subcategories :
                 sub.scoresheet_id # requests[c].id}
  /\ requests' =
       [requests EXCEPT ![c] =
          IF Rejected(scoresheets, {sub \in scoresheet_subcategories :
                                      sub.scoresheet_id # requests[c].id},
                      scoresheet_fields)
            THEN Caught(c)
          ELSE IF requests[c].method = "DELETE"
            THEN [requests[c] EXCEPT !.wrote = TRUE, !.pc = "delete_scoresheet"]
          ELSE IF requests[c].body.subcategories = <<>>
            THEN [Respond(c, 200, scoresheet_subcategories', scoresheet_fields)
                    EXCEPT !.wrote = TRUE]
          ELSE [requests[c] EXCEPT !.wrote = TRUE, !.pc = "insert_subcategory",
                                   !.i = 1]]
  /\ UNCHANGED <<scoresheets, scoresheet_fields, received, foreign_keys>>

\* The handler of a PUT after it has stored all of subcategory i: the next
\* subcategory, or the response.
AfterSubcategory(c, subcategories, fields) ==
  IF requests[c].i < Len(requests[c].body.subcategories)
    THEN [requests[c] EXCEPT !.pc = "insert_subcategory", !.i = @ + 1,
                             !.j = 0, !.subcategoryId = ""]
    ELSE [Respond(c, 200, subcategories, fields) EXCEPT !.subcategoryId = ""]

\* PUT: INSERT INTO scoresheet_subcategories, display_order i.
InsertSubcategory(c) ==
  /\ requests[c].pc = "insert_subcategory"
  /\ LET subcategory == requests[c].body.subcategories[requests[c].i]
         subcategoryId == FreshUuid
         inserted == scoresheet_subcategories \cup
                       {SubcategoryRow(subcategoryId, requests[c].id,
                                       subcategory, requests[c].i - 1)}
         rejected == Rejected(scoresheets, inserted, scoresheet_fields)
     IN  /\ scoresheet_subcategories' =
              IF rejected THEN scoresheet_subcategories ELSE inserted
         /\ requests' =
              [requests EXCEPT ![c] =
                 IF rejected THEN Caught(c)
                 ELSE IF subcategory.hasFields /\ subcategory.fields # <<>>
                   THEN [requests[c] EXCEPT !.pc = "insert_field", !.j = 1,
                                            !.subcategoryId = subcategoryId]
                   ELSE AfterSubcategory(c, scoresheet_subcategories',
                                         scoresheet_fields)]
  /\ UNCHANGED <<scoresheets, scoresheet_fields, received, foreign_keys>>

\* PUT: INSERT INTO scoresheet_fields, display_order j.
InsertField(c) ==
  /\ requests[c].pc = "insert_field"
  /\ LET fields == requests[c].body.subcategories[requests[c].i].fields
         inserted == scoresheet_fields \cup
                       {FieldRow(FreshUuid, requests[c].subcategoryId,
                                 fields[requests[c].j], requests[c].j - 1)}
         rejected == Rejected(scoresheets, scoresheet_subcategories, inserted)
     IN  /\ scoresheet_fields' =
              IF rejected THEN scoresheet_fields ELSE inserted
         /\ requests' =
              [requests EXCEPT ![c] =
                 IF rejected THEN Caught(c)
                 ELSE IF requests[c].j < Len(fields)
                   THEN [requests[c] EXCEPT !.j = @ + 1]
                   ELSE AfterSubcategory(c, scoresheet_subcategories,
                                         scoresheet_fields')]
  /\ UNCHANGED <<scoresheets, scoresheet_subcategories, received, foreign_keys>>

\* DELETE: DELETE FROM scoresheets WHERE id = ?, and the response.
DeleteScoresheet(c) ==
  /\ requests[c].pc = "delete_scoresheet"
  /\ LET deleted == [id \in DOMAIN scoresheets \ {requests[c].id} |->
                        scoresheets[id]]
         rejected == Rejected(deleted, scoresheet_subcategories,
                              scoresheet_fields)
     IN  /\ scoresheets' = IF rejected THEN scoresheets ELSE deleted
         /\ requests' =
              [requests EXCEPT ![c] =
                 IF rejected THEN Caught(c)
                 ELSE Respond(c, 200, scoresheet_subcategories,
                              scoresheet_fields)]
  /\ UNCHANGED <<scoresheet_subcategories, scoresheet_fields, received, foreign_keys>>

NextApi ==
  \/ /\ \E c \in Clients, id \in ScoresheetIds :
          \/ Receive(c, "GET", id, EmptyBody)
          \/ Receive(c, "DELETE", id, EmptyBody)
          \/ \E body \in PutBodies : Receive(c, "PUT", id, body)
     /\ UNCHANGED exceptApi
  \/ (\E c \in Clients : SelectScoresheet(c)) /\ UNCHANGED exceptApi
  \/ (\E c \in Clients : SelectSubcategories(c)) /\ UNCHANGED exceptApi
  \/ (\E c \in Clients : SelectFields(c)) /\ UNCHANGED exceptApi
  \/ (\E c \in Clients : UpdateScoresheet(c)) /\ UNCHANGED exceptApi
  \/ (\E c \in Clients : DeleteFields(c)) /\ UNCHANGED exceptApi
  \/ (\E c \in Clients : DeleteSubcategories(c)) /\ UNCHANGED exceptApi
  \/ (\E c \in Clients : InsertSubcategory(c)) /\ UNCHANGED exceptApi
  \/ (\E c \in Clients : InsertField(c)) /\ UNCHANGED exceptApi
  \/ (\E c \in Clients : DeleteScoresheet(c)) /\ UNCHANGED exceptApi

SpecApi == InitApi /\ [][NextApi]_vars

\* ----------------------------------------------- scoresheet API: claims
\* Client c has the response to a PUT that carried a subcategories array
\* and was answered with success.
ReplacedBy(c) ==
  /\ requests[c].pc = "done" /\ requests[c].method = "PUT"
  /\ requests[c].status = 200 /\ requests[c].body.hasSubcategories

\* The fields of a body, subcategory after subcategory.
BodyFields(body) ==
  Flatten([i \in DOMAIN body.subcategories |-> body.subcategories[i].fields])

\* Every formula of the body names only ids of fields of the body.
FormulasValid(body) ==
  \A i \in DOMAIN BodyFields(body) :
    BodyFields(body)[i].formula # NoFormula =>
      References(BodyFields(body)[i].formula)
        \subseteq {BodyFields(body)[j].id : j \in DOMAIN BodyFields(body)}

\* C18: when a PUT whose formulas name only ids of submitted fields has
\* been answered with success, every formula among the stored fields of the
\* scoresheet names only ids of stored fields of the scoresheet.
C18_StoredFormulasReferenceStoredFields ==
  \A c \in Clients :
    (ReplacedBy(c) /\ FormulasValid(requests[c].body)) =>
      \A f \in requests[c].after.fields :
        f.formula # NullFormula =>
          References(f.formula) \subseteq {g.id : g \in requests[c].after.fields}

\* What the subcategories array of a body says the tables hold: for each
\* subcategory its place and name, for each field the place of its
\* subcategory, its own place and what was submitted for it (an absent
\* value as NULL, a default as its text).
SubmittedSubcategories(body) ==
  {<<i - 1, body.subcategories[i].name>> : i \in DOMAIN body.subcategories}

SubmittedFields(body) ==
  UNION {{<<i - 1, j - 1,
            [name |-> body.subcategories[i].fields[j].name,
             type |-> body.subcategories[i].fields[j].type,
             default_value |->
               IF body.subcategories[i].fields[j].defaultValue = Undefined
                 THEN Null
                 ELSE TextAffinity(body.subcategories[i].fields[j].defaultValue),
             options |-> OptionsColumn(body.subcategories[i].fields[j]),
             formula |-> FormulaOrNull(body.subcategories[i].fields[j].formula),
             min_value |->
               IF body.subcategories[i].fields[j].min = Undefined
                 THEN Null ELSE body.subcategories[i].fields[j].min,
             max_value |->
               IF body.subcategories[i].fields[j].max = Undefined
                 THEN Null ELSE body.subcategories[i].fields[j].max]>> :
           j \in DOMAIN body.subcategories[i].fields} :
         i \in DOMAIN body.subcategories}

\* The same reading of rows of the tables.
StoredSubcategories(rows) ==
  {<<sub.display_order, sub.name>> : sub \in rows.subcategories}

StoredFields(rows) ==
  {<<(CHOOSE sub \in rows.subcategories : sub.id = f.subcategory_id).display_order,
     f.display_order,
     [name |-> f.name, type |-> f.type, default_value |-> f.default_value,
      options |-> f.options, formula |-> f.formula,
      min_value |-> f.min_value, max_value |-> f.max_value]>> :
     f \in rows.fields}

\* C19: when a PUT has been answered with success, the scoresheet has
\* exactly the submitted subcategories and fields, in the submitted order,
\* if the body carried a subcategories array, and the subcategories and
\* fields it had when the request arrived if it carried none.
C19_PutReplacesWholeSet ==
  \A c \in Clients :
    (requests[c].pc = "done" /\ requests[c].method = "PUT"
       /\ requests[c].status = 200) =>
      IF requests[c].body.hasSubcategories
        THEN /\ StoredSubcategories(requests[c].after)
                  = SubmittedSubcategories(requests[c].body)
             /\ Cardinality(requests[c].after.subcategories)
                  = Len(requests[c].body.subcategories)
             /\ StoredFields(requests[c].after) = SubmittedFields(requests[c].body)
             /\ Cardinality(requests[c].after.fields)
                  = Len(BodyFields(requests[c].body))
        ELSE requests[c].after = requests[c].had

\* Client c has the response to a request for an id that was not stored
\* when the request arrived.
AnsweredUnknown(c) == requests[c].pc = "done" /\ ~requests[c].known

\* C20 as stated: a GET, PUT or DELETE for an id that is not stored is
\* answered 404 and executes no statement that writes.
C20_UnknownIdNotFound ==
  \A c \in Clients :
    AnsweredUnknown(c) => requests[c].status = 404 /\ ~requests[c].wrote

\* C20 amended: the same, for a GET, a DELETE and a PUT whose body is JSON.
C20_UnknownIdNotFound_ParsedBody ==
  \A c \in Clients :
    (AnsweredUnknown(c) /\ requests[c].body.parses) =>
      requests[c].status = 404 /\ ~requests[c].wrote

\* s1 has been deleted, and a PUT for it with the builder's body was
\* answered 404.
C20_Witness ==
  \E c \in Clients :
    /\ AnsweredUnknown(c) /\ requests[c].id = "s1" /\ requests[c].method = "PUT"
    /\ requests[c].body = BuilderBody /\ requests[c].status = 404
    /\ "s1" \notin DOMAIN scoresheets /\ scoresheet_subcategories = {}

\* No handler is between two of its statements.
AllFinished == \A c \in Clients : requests[c].pc \in {"idle", "done"}

Browsers == {1, 2}

\* At most this many results are submitted in one run.
MaxCalls == 2

\* A browser that has loaded the list and has made no call.
Loaded(ms) ==
  [matches |-> ms, pc |-> "idle", seen |-> <<>>, sel |-> NoMatch,
   score1 |-> NoScore, score2 |-> NoScore, winnerId |-> NoPlayer,
   body |-> PlayersRequest(NoMatch), calls |-> 0]

InitPair ==
  /\ OnlyPair
  /\ \E R \in BracketRounds, asc \in BOOLEAN :
       /\ tournament_matches = LoadedMatches(R, asc)
       /\ browsers = [b \in Browsers |-> Loaded(LoadedMatches(R, asc))]

\* The number of results submitted so far.
Calls == browsers[1].calls + browsers[2].calls

\* The component mounts again: fetchData loads the stored list.
Mount(b) ==
  /\ browsers[b].pc \in {"idle", "done"}
  /\ browsers[b].matches # tournament_matches \/ browsers[b].pc = "done"
  /\ browsers' =
       [browsers EXCEPT ![b] =
          [Loaded(tournament_matches) EXCEPT !.calls = browsers[b].calls]]
  /\ UNCHANGED tournament_matches

\* selectMatch(matches[i]), both scores entered, click on "Update Result":
\* updateMatchScore up to its first fetch.
RecordResult(b, i, s1, s2) ==
  /\ Calls < MaxCalls
  /\ browsers[b].pc \in {"idle", "done"}
  /\ i \in DOMAIN browsers[b].matches
  /\ browsers[b].matches[i].player1Id # NoPlayer
  /\ browsers[b].matches[i].player2Id # NoPlayer
  /\ ScoresValid(s1, s2)
  /\ browsers' =
       [browsers EXCEPT ![b] =
          [browsers[b] EXCEPT
             !.pc = "await_put", !.seen = browsers[b].matches,
             !.sel = browsers[b].matches[i], !.score1 = s1, !.score2 = s2,
             !.winnerId = WinnerOf(browsers[b].matches[i], s1, s2),
             !.body = PlayersRequest(NoMatch), !.calls = @ + 1]]
  /\ UNCHANGED tournament_matches

\* The store applies the properties a request carries to the match it names.
Stored(ms, req) ==
  [i \in DOMAIN ms |->
     IF ms[i].id # req.matchId THEN ms[i]
     ELSE IF req.kind = "result"
       THEN [ms[i] EXCEPT !.score1 = req.score1, !.score2 = req.score2,
                          !.winnerId = req.winnerId, !.status = "completed"]
     ELSE [ms[i] EXCEPT !.player1Id = req.player1Id,
                        !.player2Id = req.player2Id]]

\* The first PUT of browser b is served and answered with success; the call
\* goes on to its second fetch, or ends.
ServeResult(b) ==
  /\ browsers[b].pc = "await_put"
  /\ LET call    == browsers[b]
         targets == NextTargets(call.seen, call.sel)
     IN  /\ tournament_matches' =
              Stored(tournament_matches,
                     ResultRequest(call.sel, call.score1, call.score2,
                                   call.winnerId))
         /\ browsers' =
              [browsers EXCEPT ![b] =
                 [call EXCEPT
                    !.matches = MatchesAfterSuccess(call.seen, call.sel,
                                  call.score1, call.score2, call.winnerId),
                    !.pc = IF Len(targets) > 0 THEN "await_next" ELSE "done",
                    !.body = IF Len(targets) > 0
                               THEN PlayersRequest(
                                      UpdatedNextMatch(targets[1], call.sel,
                                                       call.winnerId))
                               ELSE PlayersRequest(NoMatch)]]

\* The second PUT of browser b is served; the call ends.
ServePlayers(b) ==
  /\ browsers[b].pc = "await_next"
  /\ tournament_matches' = Stored(tournament_matches, browsers[b].body)
  /\ browsers' = [browsers EXCEPT ![b] = [browsers[b] EXCEPT !.pc = "done"]]

NextPair ==
  \/ (\E b \in Browsers : Mount(b)) /\ UNCHANGED exceptPair
  \/ /\ \E b \in Browsers, i \in 1..NumMatches(3), s1, s2 \in 0..MaxScore :
          RecordResult(b, i, s1, s2)
     /\ UNCHANGED exceptPair
  \/ (\E b \in Browsers : ServeResult(b)) /\ UNCHANGED exceptPair
  \/ (\E b \in Browsers : ServePlayers(b)) /\ UNCHANGED exceptPair

SpecPair == InitPair /\ [][NextPair]_vars

\* Browsers b and c have each finished a call, made on the same loaded list,
\* for the even (b) and the odd (c) feeder of the match at index n.
RecordedFeeders(b, c, n) ==
  /\ browsers[b].pc = "done" /\ browsers[c].pc = "done"
  /\ browsers[b].seen = browsers[c].seen
  /\ browsers[b].sel.round = browsers[c].sel.round
  /\ browsers[b].sel.position % 2 = 0
  /\ browsers[c].sel.position = browsers[b].sel.position + 1
  /\ tournament_matches[n].round = browsers[b].sel.round + 1
  /\ tournament_matches[n].position = FloorHalf(browsers[b].sel.position)

\* C22 (as claimed): when two browsers that loaded the same bracket have each
\* recorded one of the two feeders (positions 2p and 2p + 1) of a next-round
\* match, in either order, the stored next-round match has player1Id = the
\* winner of the even feeder and player2Id = the winner of the odd feeder.
C22_BothWinnersStored ==
  \A b, c \in Browsers, n \in DOMAIN tournament_matches :
    RecordedFeeders(b, c, n) =>
      /\ tournament_matches[n].player1Id = browsers[b].winnerId
      /\ tournament_matches[n].player2Id = browsers[c].winnerId

\* ------------------------------------------- tournament manager
\* The routes behind /api/tournaments are not part of the sources: a response
\* is a success, a failure ({success: false}) or a rejected fetch.  The
\* filters select which rows are shown and change no tournament.
TournamentIds == {"t1", "t2"}

Statuses == {"upcoming", "active", "completed"}

\* At most this many calls wait for their response.
MaxInFlight == 2

InitManager ==
  /\ OnlyManager
  /\ tournaments \in [TournamentIds -> Statuses]
  /\ managerError = ""
  /\ inflight = <<>>

\* The table, and with it every button, is rendered only without an error.
ManagerShown == managerError = ""

\* A handler was called and waits for the response to its fetch.
Call(op, id) ==
  /\ Len(inflight) < MaxInFlight
  /\ inflight' = Append(inflight, [op |-> op, id |-> id, seen |-> tournaments])
  /\ UNCHANGED <<tournaments, managerError>>

\* {tournament.status === 'upcoming' && <button ...>Start</button>}
StartOffered(id) == tournaments[id] = "upcoming"

\* {tournament.status === 'active' && <button ...>Complete</button>}
CompleteOffered(id) == tournaments[id] = "active"

\* Click on Start: startTournament(tournament.id) up to its fetch.
StartTournament(id) ==
  /\ ManagerShown /\ id \in DOMAIN tournaments /\ StartOffered(id)
  /\ Call("start", id)

\* Click on Complete: completeTournament(tournament.id) up to its fetch.
CompleteTournament(id) ==
  /\ ManagerShown /\ id \in DOMAIN tournaments /\ CompleteOffered(id)
  /\ Call("complete", id)

\* Click on Delete, confirmed: deleteTournament(tournament.id) up to its
\* fetch.
DeleteTournament(id) ==
  /\ ManagerShown /\ id \in DOMAIN tournaments
  /\ Call("delete", id)

\* tournaments.map(t => t.id === tournamentId ? {...t, status} : t) and
\* tournaments.filter(t => t.id !== tournamentId), on the list closed over.
ListAfter(call) ==
  IF call.op = "delete"
    THEN [id \in DOMAIN call.seen \ {call.id} |-> call.seen[id]]
    ELSE [id \in DOMAIN call.seen |->
            IF id = call.id
              THEN IF call.op = "start" THEN "active" ELSE "completed"
              ELSE call.seen[id]]

\* The calls still waiting once call k has its response.
Without(seq, k) ==
  [i \in 1..(Len(seq) - 1) |-> IF i < k THEN seq[i] ELSE seq[i + 1]]

\* The response to call k arrives: setTournaments on success, setError on a
\* failure and in the catch block.
ManagerResponds(k, answer) ==
  /\ k \in DOMAIN inflight
  /\ inflight' = Without(inflight, k)
  /\ IF answer = "ok"
       THEN tournaments' = ListAfter(inflight[k]) /\ UNCHANGED managerError
       ELSE /\ managerError' =
                 IF answer = "threw"
                   THEN "Error " \o inflight[k].op
                   ELSE "Failed to " \o inflight[k].op
            /\ UNCHANGED tournaments

NextManager ==
  \/ /\ \E id \in TournamentIds : StartTournament(id)
     /\ UNCHANGED exceptManager
  \/ /\ \E id \in TournamentIds : CompleteTournament(id)
     /\ UNCHANGED exceptManager
  \/ /\ \E id \in TournamentIds : DeleteTournament(id)
     /\ UNCHANGED exceptManager
  \/ /\ \E k \in 1..MaxInFlight, answer \in {"ok", "failed", "threw"} :
          ManagerResponds(k, answer)
     /\ UNCHANGED exceptManager

SpecManager == InitManager /\ [][NextManager]_vars

\* C26 (as claimed): the status of a listed tournament changes only from
\* upcoming to active and from active to completed, never backwards and never
\* skipping a step; a failed or rejected response changes no status.
C26_StatusOnlyForward ==
  [][\A id \in DOMAIN tournaments \cap DOMAIN tournaments' :
       \/ tournaments'[id] = tournaments[id]
       \/ tournaments[id] = "upcoming" /\ tournaments'[id] = "active"
       \/ tournaments[id] = "active" /\ tournaments'[id] = "completed"]_vars

\* ------------------------------------------- multiplayer session manager
\* The routes behind /api/multiplayer/sessions are not part of the sources: a
\* response is a success, a failure ({success: false}) or a rejected fetch.
SessionStatuses == {"waiting", "active", "completed", "cancelled"}

\* The logged-in user is 'guest'; the session was created by guest or by
\* someone else.
HostIds == {"guest", "user-1", "user-2"}

GameIds == {"g1", "g2"}

Answers == {"ok", "failed", "threw"}

\* fetchSessionDetails has loaded the session and the game.
InitSession ==
  /\ OnlySession
  /\ \E gameId \in GameIds, hostId \in HostIds, status \in SessionStatuses :
       /\ session = [gameId |-> gameId, hostId |-> hostId, status |-> status]
       /\ isHost = (hostId = "guest")
  /\ sessionLoading = ""
  /\ sessionError = ""
  /\ location = ""

\* The page is rendered: not loading, no error, not navigated away.
SessionShown == sessionLoading = "" /\ sessionError = "" /\ location = ""

\* startSession / endSession up to the fetch: the host check, setLoading(true).
HostCall(op) ==
  IF ~isHost
    THEN /\ sessionError' = "Only the host can " \o op \o " the session"
         /\ UNCHANGED <<session, isHost, sessionLoading, location>>
    ELSE /\ sessionLoading' = op
         /\ UNCHANGED <<session, isHost, sessionError, location>>

\* Click on Start Game, rendered for the host of a waiting session.
StartSession ==
  /\ SessionShown /\ isHost /\ session.status = "waiting"
  /\ HostCall("start")

\* Click on End Game, rendered for the host of an active session.
EndSession ==
  /\ SessionShown /\ isHost /\ session.status = "active"
  /\ HostCall("end")

\* Click on Leave Session: the host's call goes into endSession, another
\* player's call sends the leave request.
LeaveSession ==
  /\ SessionShown
  /\ sessionLoading' = IF isHost THEN "leave_end" ELSE "leave"
  /\ UNCHANGED <<session, isHost, sessionError, location>>

\* The rest of startSession / endSession once the response is there:
\* setSession({...session, status}) on success, setError otherwise.
AfterResponse(op, status, answer) ==
  /\ session' = IF answer = "ok" THEN [session EXCEPT !.status = status]
                                 ELSE session
  /\ sessionError' =
       CASE answer = "ok" -> sessionError
         [] answer = "failed" -> "Failed to " \o op \o " session"
         [] OTHER -> "Error " \o op \o "ing session"

\* The response to the request of startSession or endSession arrives.
HostCallResponds(answer) ==
  /\ sessionLoading \in {"start", "end"}
  /\ AfterResponse(sessionLoading,
                   IF sessionLoading = "start" THEN "active" ELSE "completed",
                   answer)
  /\ sessionLoading' = ""
  /\ UNCHANGED <<isHost, location>>

\* The response to the end request of a leaving host arrives: endSession
\* finishes, then leaveSession sets window.location.href whatever the answer.
HostLeaveResponds(answer) ==
  /\ sessionLoading = "leave_end"
  /\ AfterResponse("end", "completed", answer)
  /\ sessionLoading' = ""
  /\ location' = "/games/" \o session.gameId
  /\ UNCHANGED isHost

\* The response to the leave request of a player who is not the host.
LeaveResponds(answer) ==
  /\ sessionLoading = "leave"
  /\ sessionLoading' = ""
  /\ location' = IF answer = "ok" THEN "/games/" \o session.gameId
                                   ELSE location
  /\ sessionError' =
       CASE answer = "ok" -> sessionError
         [] answer = "failed" -> "Failed to leave session"
         [] OTHER -> "Error leaving session"
  /\ UNCHANGED <<session, isHost>>

\* Click on Copy: navigator.clipboard.writeText(inviteLink), shown while the
\* session is waiting; a rejected write sets the error.
CopyInviteLink ==
  /\ SessionShown /\ session.status = "waiting"
  /\ sessionError' = "Failed to copy invite link"
  /\ UNCHANGED <<session, isHost, sessionLoading, location>>

NextSession ==
  \/ CopyInviteLink /\ UNCHANGED exceptSession
  \/ StartSession /\ UNCHANGED exceptSession
  \/ EndSession /\ UNCHANGED exceptSession
  \/ LeaveSession /\ UNCHANGED exceptSession
  \/ /\ \E answer \in Answers : HostCallResponds(answer)
     /\ UNCHANGED exceptSession
  \/ /\ \E answer \in Answers : HostLeaveResponds(answer)
     /\ UNCHANGED exceptSession
  \/ /\ \E answer \in Answers : LeaveResponds(answer)
     /\ UNCHANGED exceptSession

SpecSession == InitSession /\ [][NextSession]_vars

\* C27 (as claimed): the status of the session is changed only by the host,
\* and only from waiting to active and from active to completed.
C27_HostOnlyForward ==
  [][session'.status # session.status =>
       /\ isHost
       /\ \/ session.status = "waiting" /\ session'.status = "active"
          \/ session.status = "active" /\ session'.status = "completed"]_vars

\* ------------------------------------------- multiplayer join
\* The routes the page fetches are not part of the sources: every response
\* is an input (a success with its data, {success: false}, a rejected fetch).

\* Sessions have up to this many seats.
MaxSeats == 3

\* The component has mounted: the effect starts fetchSessionDetails when
\* there is a room code.
InitJoin ==
  /\ OnlyJoin
  /\ joinLoad \in {"none", "session"}
  /\ fetched = NothingFetched
  /\ joinSession = FALSE /\ joinGame = FALSE
  /\ joinError = "" /\ playerName = "" /\ joining = FALSE
  /\ joinSent = 0 /\ joinLocation = ""

\* fetchSessionDetails ends with an error: setError, then setLoading(false).
LoadFails(message) ==
  /\ joinError' = message
  /\ joinLoad' = "loaded"

\* Mutant of SessionFull: a session is never full.
SessionFull_Never(count, seats) == FALSE

\* sessionData.data.players.length >= sessionData.data.maxPlayers
SessionFull(count, seats) == count >= seats

\* The response to /api/multiplayer/sessions/code/[roomCode], and the two
\* checks made on it.
SessionResponds(answer, status, count, seats) ==
  /\ joinLoad = "session"
  /\ IF answer = "threw"
       THEN LoadFails("Error loading session details")
            /\ UNCHANGED <<fetched, joinSession>>
     ELSE IF answer = "failed"
       THEN LoadFails("Failed to load session details")
            /\ UNCHANGED <<fetched, joinSession>>
     ELSE /\ fetched' = [fetched EXCEPT !.status = status, !.players = count,
                                         !.maxPlayers = seats]
          /\ IF status # "waiting"
               THEN LoadFails("This session is no longer accepting new players")
                    /\ UNCHANGED joinSession
             ELSE IF SessionFull(count, seats)
               THEN LoadFails("This session is full")
                    /\ UNCHANGED joinSession
             ELSE joinSession' = TRUE /\ joinLoad' = "game"
                  /\ UNCHANGED joinError
  /\ UNCHANGED <<joinGame, playerName, joining, joinSent, joinLocation>>

\* The response to /api/games/[gameId].
GameResponds(answer) ==
  /\ joinLoad = "game"
  /\ CASE answer = "threw" ->
            LoadFails("Error loading session details")
            /\ UNCHANGED <<fetched, joinGame>>
       [] answer = "failed" ->
            LoadFails("Failed to load game details")
            /\ UNCHANGED <<fetched, joinGame>>
       [] OTHER ->
            /\ fetched' = [fetched EXCEPT !.game = TRUE]
            /\ joinGame' = TRUE /\ joinLoad' = "legal"
            /\ UNCHANGED joinError
  /\ UNCHANGED <<joinSession, playerName, joining, joinSent, joinLocation>>

\* The response to /api/games/[gameId]/legal.
LegalResponds(answer, canPlay) ==
  /\ joinLoad = "legal"
  /\ CASE answer = "threw" ->
            LoadFails("Error loading session details") /\ UNCHANGED fetched
       [] answer = "failed" \/ ~canPlay ->
            LoadFails("This game cannot be played due to legal restrictions")
            /\ UNCHANGED fetched
       [] OTHER ->
            /\ fetched' = [fetched EXCEPT !.canPlay = TRUE]
            /\ joinLoad' = "loaded"
            /\ UNCHANGED joinError
  /\ UNCHANGED <<joinSession, joinGame, playerName, joining, joinSent,
                 joinLocation>>

\* The form with the name input and the Join Session button is rendered.
JoinShown ==
  /\ joinLoad = "loaded" /\ joinError = "" /\ joinSession /\ joinGame
  /\ joinLocation = ""

\* onChange of the name input.
SetPlayerName(name) ==
  /\ JoinShown /\ ~joining
  /\ playerName' = name
  /\ UNCHANGED <<joinLoad, fetched, joinSession, joinGame, joinError, joining,
                 joinSent, joinLocation>>

\* playerName.trim()
Trim(name) == IF name = " " THEN "" ELSE name

\* Click on Join Session (disabled while joining): joinSession up to its
\* fetch.
JoinSession ==
  /\ JoinShown /\ ~joining
  /\ IF Trim(playerName) = ""
       THEN /\ joinError' = "Please enter your name"
            /\ UNCHANGED <<joining, joinSent>>
       ELSE /\ joining' = TRUE /\ joinError' = "" /\ joinSent' = joinSent + 1
  /\ UNCHANGED <<joinLoad, fetched, joinSession, joinGame, playerName,
                 joinLocation>>

\* The response to the join request.
JoinResponds(answer) ==
  /\ joining
  /\ joining' = FALSE
  /\ CASE answer = "ok" ->
            joinLocation' = "/multiplayer/sessions" /\ UNCHANGED joinError
       [] answer = "failed" ->
            joinError' = "Failed to join session" /\ UNCHANGED joinLocation
       [] OTHER ->
            joinError' = "Error joining session" /\ UNCHANGED joinLocation
  /\ UNCHANGED <<joinLoad, fetched, joinSession, joinGame, playerName,
                 joinSent>>

NextJoin ==
  \/ /\ \E answer \in Answers, status \in SessionStatuses,
          count \in 0..MaxSeats, seats \in 1..MaxSeats :
          SessionResponds(answer, status, count, seats)
     /\ UNCHANGED exceptJoin
  \/ (\E answer \in Answers : GameResponds(answer)) /\ UNCHANGED exceptJoin
  \/ /\ \E answer \in Answers, canPlay \in BOOLEAN :
          LegalResponds(answer, canPlay)
     /\ UNCHANGED exceptJoin
  \/ /\ \E name \in {"", " ", "Ann"} : SetPlayerName(name)
     /\ UNCHANGED exceptJoin
  \/ JoinSession /\ UNCHANGED exceptJoin
  \/ (\E answer \in Answers : JoinResponds(answer)) /\ UNCHANGED exceptJoin

SpecJoin == InitJoin /\ [][NextJoin]_vars

\* The loaded session is waiting and has a free seat, and the legal status
\* of its game allows play.
Joinable ==
  /\ fetched.status = "waiting"
  /\ fetched.players < fetched.maxPlayers
  /\ fetched.game /\ fetched.canPlay

\* C28: the join form is rendered, and a join request has been sent, only
\* when the loaded session has status waiting, has fewer players than
\* maxPlayers and the game's legal status allows play; when the load has
\* finished otherwise, an error is shown and no join request was sent.
C28_JoinOnlyWhenJoinable ==
  /\ (JoinShown \/ joining \/ joinSent > 0) => Joinable
  /\ (joinLoad = "loaded" /\ ~Joinable) =>
       joinError # "" /\ ~JoinShown /\ joinSent = 0

\* The last free seat of a waiting session was taken: the join request was
\* sent and answered with success.
C28_Witness ==
  /\ fetched.players = MaxSeats - 1 /\ fetched.maxPlayers = MaxSeats
  /\ joinSent = 1 /\ ~joining /\ joinLocation # "" /\ playerName = "Ann"

\* ------------------------------------------- creator forms
\* The two forms keep their player list the same way.  The routes they post
\* to are not part of the sources: a response is an input.

\* The lists hold at most this many players.
MaxListed == 5

\* The options of the Maximum Players select.
MaxPlayersOptions(form) ==
  IF form = "session" THEN {2, 3, 4, 5, 6, 8, 10} ELSE {4, 8, 16, 32, 64}

\* The name addPlayer gives a new player: `Player ${players.length + 1}` in
\* the session form, '' in the tournament form.
NewPlayerName(form) == IF form = "session" THEN "Player" ELSE ""

\* The form is loaded, for a game whose legal status allows play.
InitCreator ==
  /\ OnlyCreator
  /\ creator \in {"session", "tournament"}
  /\ players = IF creator = "session" THEN <<"Player">> ELSE <<"">>
  /\ maxPlayers = IF creator = "session" THEN 4 ELSE 8
  /\ creatorError = ""
  /\ creating = FALSE
  /\ created = NoBody
  /\ creatorLocation = ""

\* The form is rendered.  Inputs are taken while no create request is in
\* flight: the request has its body already, and its response ends the
\* form either way (an error replaces it, a success leaves the page).
CreatorShown == creatorError = "" /\ creatorLocation = "" /\ ~creating

\* Click on Add Player (disabled when players.length >= maxPlayers).
AddPlayer ==
  /\ CreatorShown /\ Len(players) < maxPlayers /\ Len(players) < MaxListed
  /\ IF Len(players) >= maxPlayers
       THEN creatorError' = "Maximum players allowed" /\ UNCHANGED players
       ELSE players' = Append(players, NewPlayerName(creator))
            /\ UNCHANGED creatorError
  /\ UNCHANGED <<creator, maxPlayers, creating, created, creatorLocation>>

\* Click on Remove, rendered for every player but the first.
RemovePlayer(index) ==
  /\ CreatorShown /\ index > 1 /\ index \in DOMAIN players
  /\ IF Len(players) <= 1
       THEN creatorError' = "At least one player is required"
            /\ UNCHANGED players
       ELSE players' = Without(players, index) /\ UNCHANGED creatorError
  /\ UNCHANGED <<creator, maxPlayers, creating, created, creatorLocation>>

\* onChange of a player's name input.
UpdatePlayerName(index, name) ==
  /\ CreatorShown /\ index \in DOMAIN players
  /\ players' = [players EXCEPT ![index] = name]
  /\ UNCHANGED <<creator, maxPlayers, creatorError, creating, created,
                 creatorLocation>>

\* onChange of the Maximum Players select: setMaxPlayers(parseInt(value)).
SetMaxPlayers(num) ==
  /\ CreatorShown /\ num \in MaxPlayersOptions(creator)
  /\ maxPlayers' = num
  /\ UNCHANGED <<creator, players, creatorError, creating, created,
                 creatorLocation>>

\* players.filter(name => name.trim())
ValidPlayers(names) == SelectSeq(names, LAMBDA name : name # "")

\* Click on the create button (disabled while creating): createSession /
\* createTournament up to the fetch.  detailsOk: the name, type and dates of
\* the tournament pass their checks; minPlayers: of the selected type.
Create(detailsOk, minPlayers) ==
  /\ CreatorShown
  /\ IF creator = "session"
       THEN /\ creating' = TRUE
            /\ created' = [players |-> players, maxPlayers |-> maxPlayers]
            /\ UNCHANGED creatorError
     ELSE IF ~detailsOk
       THEN creatorError' = "Tournament details are required"
            /\ UNCHANGED <<creating, created>>
     ELSE IF Len(ValidPlayers(players)) < 2
       THEN creatorError' = "At least 2 players are required"
            /\ UNCHANGED <<creating, created>>
     ELSE IF Len(ValidPlayers(players)) < minPlayers
       THEN creatorError' = "This tournament type requires more players"
            /\ UNCHANGED <<creating, created>>
     ELSE /\ creating' = TRUE
          /\ created' = [players |-> ValidPlayers(players),
                         maxPlayers |-> maxPlayers]
          /\ UNCHANGED creatorError
  /\ UNCHANGED <<creator, players, maxPlayers, creatorLocation>>

\* The response to the create request.
CreateResponds(answer) ==
  /\ creating
  /\ creating' = FALSE
  /\ CASE answer = "ok" ->
            creatorLocation' = "/created" /\ UNCHANGED creatorError
       [] answer = "failed" ->
            creatorError' = "Failed to create" /\ UNCHANGED creatorLocation
       [] OTHER ->
            creatorError' = "Error creating" /\ UNCHANGED creatorLocation
  /\ UNCHANGED <<creator, players, maxPlayers, created>>

NextCreator ==
  \/ AddPlayer /\ UNCHANGED exceptCreator
  \/ /\ \E index \in 1..MaxListed : RemovePlayer(index)
     /\ UNCHANGED exceptCreator
  \/ /\ \E index \in 1..MaxListed, name \in {"", "Player"} :
          UpdatePlayerName(index, name)
     /\ UNCHANGED exceptCreator
  \/ (\E num \in 2..64 : SetMaxPlayers(num)) /\ UNCHANGED exceptCreator
  \/ /\ \E detailsOk \in BOOLEAN, minPlayers \in {2, 4} :
          Create(detailsOk, minPlayers)
     /\ UNCHANGED exceptCreator
  \/ /\ \E answer \in Answers : CreateResponds(answer)
     /\ UNCHANGED exceptCreator

SpecCreator == InitCreator /\ [][NextCreator]_vars

\* C29 (as claimed): after any sequence of addPlayer, removePlayer and
\* Maximum Players changes the list holds at least one and at most
\* maxPlayers players, and a create request carries at most maxPlayers
\* players.
C29_PlayersWithinMax ==
  /\ 1 <= Len(players) /\ Len(players) <= maxPlayers
  /\ created # NoBody => Len(created.players) <= created.maxPlayers

\* ------------------------------------------- favorites route
\* The requests the model sends to the route.
MaxFavRequests == 3

\* searchParams.get('userId') / body.userId; "" is an absent value.
UserIdParams == {"", "user-1"}

\* searchParams.get('gameId') / body.gameId; "" is an absent value.
GameIdParams == {"", "g1", "g2", "g3"}

\* The ids in table games, which GET joins.
GamesTable == {"g1", "g2"}

\* body.userId || 'guest'.
UserId(param) == IF param = "" THEN "guest" ELSE param

\* No row: .first() found nothing, or the response carries no data.
NoRow == [id |-> 0 - 1, user_id |-> "", game_id |-> ""]

\* SELECT * FROM user_favorites WHERE user_id = ? AND game_id = ?
StoredRows(rows, userId, gameId) ==
  {r \in rows : r.user_id = userId /\ r.game_id = gameId}

\* UNIQUE(user_id, game_id) without the check.
UniqueViolation_Never(rows, userId, gameId) == FALSE

\* UNIQUE(user_id, game_id): the table refuses a second row of the pair.
UniqueViolation(rows, userId, gameId) ==
  StoredRows(rows, userId, gameId) # {}

\* GET's query: the user's favorites joined with games.
ListedGames(rows, userId) ==
  {r.game_id : r \in {q \in rows : q.user_id = userId /\
                                   q.game_id \in GamesTable}}

\* NextResponse.json(...) of handler k.
FavResponse(k, h, status, row, list) ==
  [call |-> k, op |-> h.op, user_id |-> h.user_id, game_id |-> h.game_id,
   status |-> status, row |-> row, list |-> list]

Handler(op, userId, gameId, at) ==
  [op |-> op, user_id |-> userId, game_id |-> gameId, pc |-> at]

\* The table before the first request: empty, or holding one favorite.
InitFavorites ==
  /\ OnlyFavorites
  /\ user_favorites \in
       {{}, {[id |-> 0, user_id |-> "guest", game_id |-> "g1"]}}
  /\ favHandlers = <<>>
  /\ favLog = <<>>

\* POST up to the SELECT: the body is read and checked.
PostReceive(userParam, gameParam) ==
  /\ Len(favHandlers) < MaxFavRequests
  /\ LET k == Len(favHandlers) + 1
         userId == UserId(userParam)
     IN  IF gameParam = ""
           THEN LET h == Handler("POST", userId, gameParam, "done")
                IN  /\ favHandlers' = Append(favHandlers, h)
                    /\ favLog' =
                         Append(favLog, FavResponse(k, h, 400, NoRow, {}))
           ELSE /\ favHandlers' =
                     Append(favHandlers,
                            Handler("POST", userId, gameParam, "select"))
                /\ UNCHANGED favLog
  /\ UNCHANGED user_favorites

\* POST: the SELECT is served; an existing row is returned at once.
PostSelect(k) ==
  /\ k \in DOMAIN favHandlers
  /\ favHandlers[k].pc = "select"
  /\ LET h == favHandlers[k]
         found == StoredRows(user_favorites, h.user_id, h.game_id)
     IN  IF found # {}
           THEN /\ \E existing \in found :
                     favLog' = Append(favLog,
                                 FavResponse(k, h, 200, existing, {}))
                /\ favHandlers' =
                     [favHandlers EXCEPT ![k].pc = "done"]
           ELSE /\ favHandlers' =
                     [favHandlers EXCEPT ![k].pc = "insert"]
                /\ UNCHANGED favLog
  /\ UNCHANGED user_favorites

\* POST: the INSERT is served. The database may refuse the row (UNIQUE, or
\* "refused": a foreign key on users or games); the catch block answers 500.
PostInsert(k, answer) ==
  /\ k \in DOMAIN favHandlers
  /\ favHandlers[k].pc = "insert"
  /\ LET h == favHandlers[k]
         row == [id |-> k, user_id |-> h.user_id, game_id |-> h.game_id]
     IN  IF \/ answer = "refused"
            \/ UniqueViolation(user_favorites, h.user_id, h.game_id)
           THEN /\ favLog' =
                     Append(favLog, FavResponse(k, h, 500, NoRow, {}))
                /\ UNCHANGED user_favorites
           ELSE /\ user_favorites' = user_favorites \cup {row}
                /\ favLog' =
                     Append(favLog, FavResponse(k, h, 200, row, {}))
  /\ favHandlers' = [favHandlers EXCEPT ![k].pc = "done"]

\* DELETE: the parameters are checked and the DELETE is served.
DeleteFavorite(userParam, gameParam) ==
  /\ Len(favHandlers) < MaxFavRequests
  /\ LET k == Len(favHandlers) + 1
         userId == UserId(userParam)
         h == Handler("DELETE", userId, gameParam, "done")
     IN  /\ favHandlers' = Append(favHandlers, h)
         /\ IF gameParam = ""
              THEN /\ favLog' =
                        Append(favLog, FavResponse(k, h, 400, NoRow, {}))
                   /\ UNCHANGED user_favorites
              ELSE /\ user_favorites' =
                        user_favorites \
                          StoredRows(user_favorites, userId, gameParam)
                   /\ favLog' =
                        Append(favLog, FavResponse(k, h, 200, NoRow, {}))

\* GET: the user's favorites are listed.
GetFavorites(userParam) ==
  /\ Len(favHandlers) < MaxFavRequests
  /\ LET k == Len(favHandlers) + 1
         userId == UserId(userParam)
         h == Handler("GET", userId, "", "done")
     IN  /\ favHandlers' = Append(favHandlers, h)
         /\ favLog' =
              Append(favLog,
                     FavResponse(k, h, 200, NoRow,
                                 ListedGames(user_favorites, userId)))
  /\ UNCHANGED user_favorites

NextFavorites ==
  \/ /\ \E userParam \in UserIdParams, gameParam \in GameIdParams :
          PostReceive(userParam, gameParam)
     /\ UNCHANGED exceptFavorites
  \/ (\E k \in 1..MaxFavRequests : PostSelect(k)) /\ UNCHANGED exceptFavorites
  \/ /\ \E k \in 1..MaxFavRequests, answer \in {"ok", "refused"} :
          PostInsert(k, answer)
     /\ UNCHANGED exceptFavorites
  \/ /\ \E userParam \in UserIdParams, gameParam \in GameIdParams :
          DeleteFavorite(userParam, gameParam)
     /\ UNCHANGED exceptFavorites
  \/ (\E userParam \in UserIdParams : GetFavorites(userParam))
       /\ UNCHANGED exceptFavorites

SpecFavorites == InitFavorites /\ [][NextFavorites]_vars

\* ------------------------------------------- favorites route: claims
\* At most one row per (user_id, game_id).
OneRowPerPair(rows) ==
  \A r1, r2 \in rows :
    (r1.user_id = r2.user_id /\ r1.game_id = r2.game_id) => r1 = r2

\* Handler k leaves its SELECT in this step, and the pair was stored when
\* the SELECT looked.
SelectsStoredPair(k) ==
  /\ k \in DOMAIN favHandlers
  /\ favHandlers[k].pc = "select"
  /\ favHandlers'[k].pc # "select"
  /\ StoredRows(user_favorites, favHandlers[k].user_id,
                favHandlers[k].game_id) # {}

\* A response is sent in this step.
Responds == Len(favLog') = Len(favLog) + 1

\* C30: adding a favorite is idempotent. Whatever POST and DELETE requests
\* were served, and however their handlers interleave, (1) the table holds
\* at most one row per (user, game) pair; (2) a POST whose SELECT finds the
\* pair stored answers with success and the stored row and leaves the table
\* as it was; (3) a served DELETE leaves no row of the pair, and a GET for
\* the same user served next does not list the game.
C30_FavoriteIdempotent ==
  [][/\ OneRowPerPair(user_favorites')
     /\ \A k \in 1..MaxFavRequests :
          SelectsStoredPair(k) =>
            /\ Responds
            /\ favLog'[Len(favLog')].call = k
            /\ favLog'[Len(favLog')].status = 200
            /\ favLog'[Len(favLog')].row \in
                 StoredRows(user_favorites, favHandlers[k].user_id,
                            favHandlers[k].game_id)
            /\ user_favorites' = user_favorites
     /\ (Responds /\ favLog'[Len(favLog')].op = "DELETE"
           /\ favLog'[Len(favLog')].status = 200) =>
          StoredRows(user_favorites', favLog'[Len(favLog')].user_id,
                     favLog'[Len(favLog')].game_id) = {}
     /\ (/\ Responds
         /\ favLog # <<>>
         /\ favLog'[Len(favLog')].op = "GET"
         /\ favLog[Len(favLog)].op = "DELETE"
         /\ favLog[Len(favLog)].status = 200
         /\ favLog[Len(favLog)].user_id = favLog'[Len(favLog')].user_id) =>
          favLog[Len(favLog)].game_id \notin favLog'[Len(favLog')].list
    ]_vars

\* A POST of a stored pair was answered with the stored row, a DELETE of the
\* pair followed, and the GET served next for the user listed nothing of it.
C30_Witness ==
  /\ Len(favLog) = 3
  /\ favLog[1].op = "POST" /\ favLog[1].status = 200
  /\ favLog[1].row.id # favLog[1].call
  /\ favLog[1].row.game_id = favLog[1].game_id
  /\ favLog[2].op = "DELETE" /\ favLog[2].status = 200
  /\ favLog[2].game_id = favLog[1].game_id
  /\ favLog[2].user_id = favLog[1].user_id
  /\ favLog[3].op = "GET" /\ favLog[3].status = 200
  /\ favLog[3].user_id = favLog[1].user_id
  /\ favLog[1].game_id \notin favLog[3].list
  /\ user_favorites = {}
====
